---- MODULE Spec2Model ----
(***************************************************************************)
(* A model of the signaling server core (src/src/signaling-core.ts) and    *)
(* its rate limiter (src/src/rate-limiter.ts).                             *)
(*                                                                         *)
(* Every handler of SignalingCore is one action; a handler runs to         *)
(* completion on the JavaScript event loop, so an action is atomic.  The   *)
(* timers armed by setTimeout are a variable of their own, so that a       *)
(* timer callback is an event like any other.                              *)
(*                                                                         *)
(* Spec is the core used without addresses, SpecIp the core whose client   *)
(* connections have an address, so that the rate limiter takes part, and   *)
(* SpecRL the rate limiter alone.  SpecTwoIds has two servers under two    *)
(* remoteIds, SpecAnyIds lets generateSessionId return an id in use, and   *)
(* SpecFair is Spec with every armed timer coming due.  In SpecRoles one   *)
(* connection registers under two remoteIds and asks for sessions too.     *)
(***************************************************************************)
EXTENDS Integers, Sequences, FiniteSets, TLC

(***************************************************************************)
(* Bounds of the model.                                                    *)
(***************************************************************************)
\* How many sessions generateSessionId is asked for in one behaviour.
MaxSessions == 2
\* How many times the clock advances in one behaviour.
MaxTicks == 1
\* How many times the clock advances in one behaviour of SpecRL: a block
\* has to run out and then a window.
MaxLimiterTicks == 2
\* How many violations the rate limiter holds against one address in SpecRL.
MaxViolations == 8
\* RateLimiter options, instantiated small (the defaults are 100 and 10).
maxRequests == 3
maxFailedLookups == 2

(***************************************************************************)
(* Program constants.                                                      *)
(***************************************************************************)
windowMs == 60000
failedLookupWindowMs == 60000
baseBlockDurationMs == 60000
MaxBlockDurationMs == 3600000
MsPerSecond == 1000
CloseReplaced == 4000
CloseBlocked == 4008

(***************************************************************************)
(* Values.  An optional value (a field that may be undefined) is a         *)
(* sequence of length 0 or 1.  A remoteId is a string, here the sequence   *)
(* of its character codes, so that toUpperCase is computed.                *)
(***************************************************************************)
None == <<>>
Some(x) == <<x>>
IsSome(o) == o # <<>>
Val(o) == o[1]

\* Connection handles (WS): opaque tokens compared by identity.
WS == {"w1", "w2", "w3"}
\* Source addresses.
Ips == {"ip1"}
\* remoteId strings: "a1" and "" are what connections send; "A1" and "b" are
\* further strings a caller may ask about.
RawIds == {<<97, 49>>, <<>>}
AllRawIds == RawIds \cup {<<65, 49>>, <<98>>}
\* ICE server lists (opaque to the core): those servers register with, and
\* those they answer a client-connected with.
CachedLists == {"C"}
FreshLists == {"F"}
IceLists == CachedLists \cup FreshLists
SessionIds == 1..MaxSessions

Max(a, b) == IF a > b THEN a ELSE b
\* Math.min(base * Math.pow(2, n), cap) for a natural n, computed without
\* leaving the 32-bit integers: the doubling stops once the cap is passed
RECURSIVE backoff(_, _, _)
backoff(base, n, cap) ==
  IF base >= cap THEN cap
  ELSE IF n <= 0 THEN base
  ELSE backoff(2 * base, n - 1, cap)
\* Math.floor(a / b)
FloorDiv(a, b) == a \div b

\* Math.ceil(a / b) for a >= 0, b > 0
CeilDiv(a, b) == (a + b - 1) \div b

\* String.prototype.toUpperCase on character codes
upperChar(c) == IF c >= 97 /\ c <= 122 THEN c - 32 ELSE c
toUpperCase(s) == [i \in 1..Len(s) |-> upperChar(s[i])]

\* Remove key k from function f (Map.delete)
MapDelete(f, k) == [x \in DOMAIN f \ {k} |-> f[x]]
\* Map.set
MapSet(f, k, v) == [x \in DOMAIN f \cup {k} |-> IF x = k THEN v ELSE f[x]]
EmptyMap == [x \in {} |-> 0]

VARIABLES
  core,   \* the SignalingCore object and what its callbacks refer to
  now,    \* Date.now()
  ticks,  \* how many times the clock advanced
  open    \* the connections whose disconnect was not yet handled

vars == <<core, now, ticks, open>>

\* The fields of the SignalingCore object
servers == core.servers                \* Map remoteId -> reference to its ServerData
clients == core.clients                \* Map sessionId -> [ws, remoteId]
pendingClients == core.pendingClients  \* Map sessionId -> [ws, remoteId, timeout]
wsMetadata == core.wsMetadata          \* Map ws -> [type, id]
wsClientIp == core.wsClientIp          \* Map ws -> ip
requests == core.requests              \* rateLimiter.requests: ip -> record
failedLookups == core.failedLookups    \* rateLimiter.failedLookups: ip -> record
\* The ServerData objects: reference -> [ws, iceServers]
heap == core.heap
\* The armed setTimeout callbacks: timer id -> closure
timers == core.timers
\* How many session ids generateSessionId has produced
generated == core.generated
\* History: sessionId -> who sent 'connected' for it, in order: the timeout
\* callback or handleSessionReady
connected == core.connected
\* History: the calls of closeFn, as <<ws, code>>
closed == core.closed
\* What the calls of generateSessionId return, in order: the draws of
\* Math.random that the behaviour will see
random == core.random
\* History: sessionId -> the connections a connect-request was answered with
\* that id for, in order
issued == core.issued

(***************************************************************************)
(* RateLimiter (src/src/rate-limiter.ts)                                   *)
(***************************************************************************)
NewRequestRecord(t) ==
  [count |-> 0, windowStart |-> t, blocked |-> FALSE, blockExpires |-> 0,
   violations |-> 0]

\* A block that does not grow with the violations
blockDurationFlat(violations) == baseBlockDurationMs

\* Exponential backoff of checkRequest: base * 2^(violations-1), max 1 hour
blockDurationRequest(violations) ==
  backoff(baseBlockDurationMs, violations - 1, MaxBlockDurationMs)

\* The block duration recordFailedLookup computes
blockDurationLookup(violations) ==
  backoff(baseBlockDurationMs, violations, MaxBlockDurationMs)

\* A clean window forgives every violation, not one
checkRequestForgives(reqs, ip, t) ==
  LET has == ip \in DOMAIN reqs
      stillBlocked == has /\ reqs[ip].blocked /\ t < reqs[ip].blockExpires
      \* block expired: reset but keep the violation count
      r1 == IF has
            THEN IF reqs[ip].blocked
                 THEN [reqs[ip] EXCEPT !.blocked = FALSE, !.count = 0,
                                       !.windowStart = t]
                 ELSE reqs[ip]
            ELSE NewRequestRecord(t)
      \* reset window if expired, decay violations
      r2 == IF t - r1.windowStart > windowMs
            THEN [r1 EXCEPT !.count = 0, !.windowStart = t,
                            !.violations = 0]
            ELSE r1
      r3 == [r2 EXCEPT !.count = @ + 1]
      dur == blockDurationRequest(r3.violations + 1)
      r4 == [r3 EXCEPT !.violations = @ + 1, !.blocked = TRUE,
                       !.blockExpires = t + dur]
  IN  IF stillBlocked
      THEN [requests |-> reqs, allowed |-> FALSE,
            retryAfter |-> Some(CeilDiv(reqs[ip].blockExpires - t, MsPerSecond))]
      ELSE IF r3.count > maxRequests
           THEN [requests |-> MapSet(reqs, ip, r4), allowed |-> FALSE,
                 retryAfter |-> Some(CeilDiv(dur, MsPerSecond))]
           ELSE [requests |-> MapSet(reqs, ip, r3), allowed |-> TRUE,
                 retryAfter |-> None]

\* checkRequest(ip) at time t on the map reqs: the map afterwards and the
\* result { allowed, retryAfter }.
checkRequest(reqs, ip, t) ==
  LET has == ip \in DOMAIN reqs
      stillBlocked == has /\ reqs[ip].blocked /\ t < reqs[ip].blockExpires
      \* block expired: reset but keep the violation count
      r1 == IF has
            THEN IF reqs[ip].blocked
                 THEN [reqs[ip] EXCEPT !.blocked = FALSE, !.count = 0,
                                       !.windowStart = t]
                 ELSE reqs[ip]
            ELSE NewRequestRecord(t)
      \* reset window if expired, decay violations
      r2 == IF t - r1.windowStart > windowMs
            THEN [r1 EXCEPT !.count = 0, !.windowStart = t,
                            !.violations = IF @ > 0 THEN Max(0, @ - 1) ELSE @]
            ELSE r1
      r3 == [r2 EXCEPT !.count = @ + 1]
      dur == blockDurationRequest(r3.violations + 1)
      r4 == [r3 EXCEPT !.violations = @ + 1, !.blocked = TRUE,
                       !.blockExpires = t + dur]
  IN  IF stillBlocked
      THEN [requests |-> reqs, allowed |-> FALSE,
            retryAfter |-> Some(CeilDiv(reqs[ip].blockExpires - t, MsPerSecond))]
      ELSE IF r3.count > maxRequests
           THEN [requests |-> MapSet(reqs, ip, r4), allowed |-> FALSE,
                 retryAfter |-> Some(CeilDiv(dur, MsPerSecond))]
           ELSE [requests |-> MapSet(reqs, ip, r3), allowed |-> TRUE,
                 retryAfter |-> None]

\* A count of failed lookups that never blocks
recordWithoutBlock(reqs, fls, ip, t) ==
  [requests |-> reqs,
   failedLookups |->
     MapSet(fls, ip, [count |-> IF ip \in DOMAIN fls THEN fls[ip].count + 1 ELSE 1,
                      windowStart |-> t]),
   blocked |-> FALSE]

\* recordFailedLookup(ip) at time t: both maps afterwards and the result
\* (true if the ip should be blocked).
recordFailedLookup(reqs, fls, ip, t) ==
  LET r0 == IF ip \in DOMAIN fls THEN fls[ip]
            ELSE [count |-> 0, windowStart |-> t]
      r1 == IF t - r0.windowStart > failedLookupWindowMs
            THEN [count |-> 0, windowStart |-> t]
            ELSE r0
      r2 == [r1 EXCEPT !.count = @ + 1]
      q0 == IF ip \in DOMAIN reqs THEN reqs[ip] ELSE NewRequestRecord(t)
      q1 == [q0 EXCEPT !.violations = @ + 2, !.blocked = TRUE,
                       !.blockExpires = t + blockDurationLookup(q0.violations + 2)]
  IN  IF r2.count >= maxFailedLookups
      THEN [requests |-> MapSet(reqs, ip, q1),
            failedLookups |-> MapSet(fls, ip, [count |-> 0, windowStart |-> t]),
            blocked |-> TRUE]
      ELSE [requests |-> reqs, failedLookups |-> MapSet(fls, ip, r2),
            blocked |-> FALSE]

\* Every idle record that is not blocked is dropped, violations or not
cleanupIdle(reqs, t) ==
  LET maxAge == Max(windowMs, failedLookupWindowMs) * 10
      drop == {ip \in DOMAIN reqs :
                 ~reqs[ip].blocked /\ t - reqs[ip].windowStart > maxAge}
  IN  [ip \in DOMAIN reqs \ drop |-> reqs[ip]]

\* cleanup() at time t
cleanupRequests(reqs, t) ==
  LET maxAge == Max(windowMs, failedLookupWindowMs) * 10
      drop == {ip \in DOMAIN reqs :
                 /\ ~reqs[ip].blocked
                 /\ t - reqs[ip].windowStart > maxAge
                 /\ reqs[ip].violations = 0}
  IN  [ip \in DOMAIN reqs \ drop |-> reqs[ip]]

cleanupFailedLookups(fls, t) ==
  LET maxAge == Max(windowMs, failedLookupWindowMs) * 10
      drop == {ip \in DOMAIN fls : t - fls[ip].windowStart > maxAge}
  IN  [ip \in DOMAIN fls \ drop |-> fls[ip]]

(***************************************************************************)
(* Messages.  Every field but type is optional.                            *)
(***************************************************************************)
Msg(type) ==
  [type |-> type, remoteId |-> None, sessionId |-> None, data |-> None,
   error |-> None, iceServers |-> None]

ErrorMsg(text) == [Msg("error") EXCEPT !.error = Some(text)]

\* What a handler does to the adapter, through sendFn and closeFn
Send(ws, m) == [kind |-> "send", to |-> ws, msg |-> m]
Close(ws, code, reason) ==
  [kind |-> "close", to |-> ws, msg |-> [code |-> code, reason |-> reason]]

\* sendError(ws, error)
sendError(ws, text) == Send(ws, ErrorMsg(<<text>>))

Opt(S) == {None} \cup {Some(x) : x \in S}

\* The messages a connection may send
PingMsgs == {Msg("ping")}
PongMsgs == {Msg("pong")}
UnknownMsgs == {Msg("bogus")}
RegisterMsgs(ids, lists) ==
  {[Msg("register-server") EXCEPT !.remoteId = r, !.iceServers = i] :
     r \in Opt(ids), i \in Opt(lists)}
ConnectMsgs(ids) ==
  {[Msg("connect-request") EXCEPT !.remoteId = r] : r \in Opt(ids)}
ReadyMsgs(lists) ==
  {[Msg("session-ready") EXCEPT !.sessionId = s, !.iceServers = i] :
     s \in Opt(SessionIds), i \in Opt(lists)}
ForwardTypes == {"offer", "answer", "ice-candidate"}
ForwardMsgs ==
  {[Msg(t) EXCEPT !.sessionId = s, !.data = Some("sdp")] :
     t \in ForwardTypes, s \in Opt(SessionIds)}

(***************************************************************************)
(* A handler starts from the core and leaves a core, whose field out      *)
(* holds the calls of sendFn and closeFn the handler made, in order.       *)
(***************************************************************************)
Cur == core

\* The ServerData object registered under remoteId r
serverData(r) == heap[servers[r]]

\* A reference no live object has (a new object)
NewRef(h) == CHOOSE n \in 1..(Cardinality(DOMAIN h) + 1) : n \notin DOMAIN h

\* The objects still referenced by a registration or by a timer's closure;
\* the others are garbage.
Collect(h, srv, tms) ==
  [n \in {srv[r] : r \in DOMAIN srv} \cup {tms[t].serverData : t \in DOMAIN tms}
     |-> h[n]]

\* message.remoteId?.toUpperCase()
canonical(message) ==
  IF IsSome(message.remoteId) THEN Some(toUpperCase(Val(message.remoteId)))
  ELSE None
\* Only undefined counts as no id
undefinedOnly(o) == o = None

\* !remoteId : undefined or the empty string
Falsy(o) == o = None \/ Val(o) = <<>>

\* A lookup of the string as it is given
isOnlineExact(this, remoteId) == remoteId \in DOMAIN this.servers

\* this.isOnline(remoteId), remoteId a string
isOnline(this, remoteId) == toUpperCase(remoteId) \in DOMAIN this.servers

\* No request is counted and none refused
rateLimitOff(ws) == [requests |-> requests, ok |-> TRUE, out |-> <<>>]

\* A connection without an address is counted under the key 'unknown'
limitedAsUnknown(ws) ==
  LET ip == IF ws \in DOMAIN wsClientIp THEN wsClientIp[ws] ELSE "unknown"
      r == checkRequest(requests, ip, now)
  IN  [requests |-> r.requests, ok |-> r.allowed,
       out |-> IF r.allowed THEN <<>>
               ELSE <<Send(ws, ErrorMsg(<<"Rate limited", Val(r.retryAfter)>>))>>]

\* checkRateLimit(ws): the limiter's map afterwards, whether the message is
\* let through, and the error sent when it is not.
checkRateLimit(ws) ==
  IF ws \notin DOMAIN wsClientIp
  THEN [requests |-> requests, ok |-> TRUE, out |-> <<>>]
  ELSE LET r == checkRequest(requests, wsClientIp[ws], now)
       IN  [requests |-> r.requests, ok |-> r.allowed,
            out |-> IF r.allowed THEN <<>>
                    ELSE <<Send(ws, ErrorMsg(<<"Rate limited", Val(r.retryAfter)>>))>>]

\* The state handleMessage dispatches from: the rate limit check has counted
\* the request.
Counted(ws) == [Cur EXCEPT !.requests = checkRateLimit(ws).requests]

(***************************************************************************)
(* handleServerRegister                                                    *)
(***************************************************************************)
Registered(remoteId) == [Msg("registered") EXCEPT !.remoteId = Some(remoteId)]

\* "Check if this WebSocket is already registered"
alreadyRegistered(ws, remoteId) ==
  /\ ws \in DOMAIN wsMetadata
  /\ wsMetadata[ws].type = "server"
  /\ wsMetadata[ws].id = remoteId

\* "Check if Remote ID is already registered with a DIFFERENT WebSocket"
registeredElsewhere(ws, remoteId) ==
  remoteId \in DOMAIN servers /\ serverData(remoteId).ws # ws

\* The list of the message stored whether the message has one or not
refreshAlways(remoteId, message) ==
  [heap EXCEPT ![servers[remoteId]].iceServers = message.iceServers]

\* The refresh: existingServer.iceServers = message.iceServers, in place
refreshedHeap(remoteId, message) ==
  IF remoteId \in DOMAIN servers /\ IsSome(message.iceServers)
  THEN [heap EXCEPT ![servers[remoteId]].iceServers = message.iceServers]
  ELSE heap

\* The identity map had the evicted connection kept its entry
metadataKept(remoteId) == wsMetadata

\* The identity map after the eviction of the connection registered under
\* remoteId: this.wsMetadata.delete(existingServer.ws)
metadataAfterEviction(remoteId) ==
  MapDelete(wsMetadata, serverData(remoteId).ws)

\* this.closeFn(existingServer.ws, 4000, 'Replaced by new connection')
evictionClose(remoteId) ==
  <<Close(serverData(remoteId).ws, CloseReplaced, "Replaced by new connection")>>

\* The registry entry of the new registration
newServerData(ws, message) == [ws |-> ws, iceServers |-> message.iceServers]

\* The eviction had it removed the active sessions of the remoteId as well
registerDestroysSessions(ws, message) ==
  LET remoteId == canonical(message) IN
  IF Falsy(remoteId)
  THEN [Counted(ws) EXCEPT !.out = <<sendError(ws, "Remote ID required")>>]
  ELSE IF alreadyRegistered(ws, Val(remoteId))
  THEN [Counted(ws) EXCEPT !.heap = refreshedHeap(Val(remoteId), message),
                           !.out = <<Send(ws, Registered(Val(remoteId)))>>]
  ELSE
    LET r == Val(remoteId)
        evict == registeredElsewhere(ws, r)
        ref == NewRef(heap)
        srv == MapSet(servers, r, ref)
        md == IF evict THEN metadataAfterEviction(r) ELSE wsMetadata
        cl == IF evict THEN evictionClose(r) ELSE <<>>
        kept == IF evict THEN {x \in DOMAIN clients : clients[x].remoteId # r}
                ELSE DOMAIN clients
    IN  [Counted(ws) EXCEPT
           !.servers = srv,
           !.heap = Collect(MapSet(heap, ref, newServerData(ws, message)),
                            srv, timers),
           !.wsMetadata = MapSet(md, ws, [type |-> "server", id |-> r]),
           !.clients = [x \in kept |-> clients[x]],
           !.closed = @ \cup {<<cl[i].to, cl[i].msg.code>> : i \in 1..Len(cl)},
           !.out = cl \o <<Send(ws, Registered(r))>>]

handleServerRegister(ws, message) ==
  LET remoteId == canonical(message) IN
  IF Falsy(remoteId)
  THEN [Counted(ws) EXCEPT !.out = <<sendError(ws, "Remote ID required")>>]
  ELSE IF alreadyRegistered(ws, Val(remoteId))
  THEN [Counted(ws) EXCEPT !.heap = refreshedHeap(Val(remoteId), message),
                           !.out = <<Send(ws, Registered(Val(remoteId)))>>]
  ELSE
    LET r == Val(remoteId)
        evict == registeredElsewhere(ws, r)
        ref == NewRef(heap)
        srv == MapSet(servers, r, ref)
        md == IF evict THEN metadataAfterEviction(r) ELSE wsMetadata
        cl == IF evict THEN evictionClose(r) ELSE <<>>
    IN  [Counted(ws) EXCEPT
           !.servers = srv,
           !.heap = Collect(MapSet(heap, ref, newServerData(ws, message)),
                            srv, timers),
           !.wsMetadata = MapSet(md, ws, [type |-> "server", id |-> r]),
           !.closed = @ \cup {<<cl[i].to, cl[i].msg.code>> : i \in 1..Len(cl)},
           !.out = cl \o <<Send(ws, Registered(r))>>]

(***************************************************************************)
(* handleConnectRequest and the timeout callback it arms                   *)
(***************************************************************************)
Connected(remoteId, sessionId, iceServers) ==
  [Msg("connected") EXCEPT !.remoteId = Some(remoteId),
                           !.sessionId = Some(sessionId),
                           !.iceServers = iceServers]

ClientConnected(sessionId) ==
  [Msg("client-connected") EXCEPT !.sessionId = Some(sessionId)]

\* generateSessionId(): 16 random characters.  Nothing compares the result
\* with the ids in use; two calls return the same id with probability 62^-16.
generateSessionId == random[generated + 1]

\* setTimeout returns a handle no other timer has
NewTimer == generated + 1

NotFoundText ==
  "Server not found. Make sure your Music Assistant server is running and has Remote Access enabled."
BlockedText == "Too many failed attempts. You have been temporarily blocked."

\* No lookup is recorded
untracked(ws) ==
  [requests |-> checkRateLimit(ws).requests, failedLookups |-> failedLookups,
   blocked |-> FALSE]

\* "Track failed lookup for brute force detection": the limiter afterwards
\* and whether recordFailedLookup returned true.  Without an address nothing
\* is recorded.
trackFailedLookup(ws) ==
  IF ws \in DOMAIN wsClientIp
  THEN recordFailedLookup(checkRateLimit(ws).requests, failedLookups,
                          wsClientIp[ws], now)
  ELSE [requests |-> checkRateLimit(ws).requests,
        failedLookups |-> failedLookups, blocked |-> FALSE]

\* The lookup is recorded, and the sender told no more than 'not found'
notFoundOnly(ws) ==
  LET f == trackFailedLookup(ws) IN
  [Cur EXCEPT !.requests = f.requests,
              !.failedLookups = f.failedLookups,
              !.out = <<sendError(ws, NotFoundText)>>]

\* The branch of handleConnectRequest for a remoteId nobody registered
serverNotFound(ws) ==
  LET f == trackFailedLookup(ws) IN
  IF f.blocked
  THEN [Cur EXCEPT !.requests = f.requests,
                   !.failedLookups = f.failedLookups,
                   !.closed = @ \cup {<<ws, CloseBlocked>>},
                   !.out = <<sendError(ws, BlockedText),
                             Close(ws, CloseBlocked, "Blocked for brute force")>>]
  ELSE [Cur EXCEPT !.requests = f.requests,
                   !.failedLookups = f.failedLookups,
                   !.out = <<sendError(ws, NotFoundText)>>]

\* The closure of the timeout callback: sessionId, remoteId and serverData
\* are the variables of handleConnectRequest it captures.
timeoutClosure(sessionId, remoteId) ==
  [sessionId |-> sessionId, remoteId |-> remoteId, serverData |-> servers[remoteId]]

handleConnectRequest(ws, message) ==
  LET remoteId == canonical(message) IN
  IF Falsy(remoteId)
  THEN [Counted(ws) EXCEPT !.out = <<sendError(ws, "Remote ID required")>>]
  ELSE IF Val(remoteId) \notin DOMAIN servers
  THEN serverNotFound(ws)
  ELSE
    LET r == Val(remoteId)
        sessionId == generateSessionId
        timeoutId == NewTimer
    IN  [Counted(ws) EXCEPT
           !.generated = @ + 1,
           !.timers = MapSet(@, timeoutId, timeoutClosure(sessionId, r)),
           !.pendingClients = MapSet(@, sessionId,
                                     [ws |-> ws, remoteId |-> r,
                                      timeout |-> timeoutId]),
           !.wsMetadata = MapSet(@, ws, [type |-> "client", id |-> sessionId]),
           !.issued[sessionId] = Append(@, ws),
           !.out = <<Send(serverData(r).ws, ClientConnected(sessionId))>>]

\* The list cached on whatever is registered under the closure's remoteId now
currentIceServers(closure) == serverData(closure.remoteId).iceServers

\* The iceServers the timeout callback sends: serverData.iceServers, read
\* when the callback runs, from the object captured at the connect-request
fallbackIceServers(closure) == heap[closure.serverData].iceServers

\* The callback had it found no pending session
findsNothing(closure) == FALSE

\* The callback's guard: const pending = ...get(sessionId); if (pending)
timeoutFindsPending(closure) == closure.sessionId \in DOMAIN pendingClients

\* The callback of setTimeout(..., FRESH_ICE_TIMEOUT) for timer t; a timer
\* that has fired is no longer armed.
timeout(t) ==
  LET c == timers[t]
      sid == c.sessionId
      tms == MapDelete(timers, t)
      rest == [Cur EXCEPT !.timers = tms, !.heap = Collect(heap, servers, tms)]
  IN  IF timeoutFindsPending(c)
      THEN [rest EXCEPT
              !.pendingClients = MapDelete(@, sid),
              !.clients = MapSet(@, sid, [ws |-> pendingClients[sid].ws,
                                          remoteId |-> c.remoteId]),
              !.connected[sid] = Append(@, "timeout"),
              !.out = <<Send(pendingClients[sid].ws,
                             Connected(c.remoteId, sid, fallbackIceServers(c)))>>]
      ELSE rest

(***************************************************************************)
(* handleSessionReady                                                      *)
(***************************************************************************)
\* Any identity taken for a server's
anyIdentity(ws) == ws \in DOMAIN wsMetadata

\* "Get the remote ID from server metadata"
isServer(ws) == ws \in DOMAIN wsMetadata /\ wsMetadata[ws].type = "server"

\* The list cached on the registration the pending session named
cachedIceServers(message) ==
  serverData(pendingClients[Val(message.sessionId)].remoteId).iceServers

\* "Extract ICE servers from message"
readyIceServers(message) == message.iceServers

\* The timer is left armed
leftArmed(tms, timeoutId) == tms

\* clearTimeout(timeoutId)
clearTimeout(tms, timeoutId) == MapDelete(tms, timeoutId)

\* The pending map had the session not been taken out of it
pendingKept(sessionId) == pendingClients

\* "Move from pending to active clients": the pending map afterwards
pendingAfterReady(sessionId) == MapDelete(pendingClients, sessionId)

\* The sender's identity looked at before the pending session is looked up
readyChecksServerFirst(ws, message) ==
  IF ~IsSome(message.sessionId)
  THEN [Counted(ws) EXCEPT !.out = <<sendError(ws, "Session ID required")>>]
  ELSE IF ~isServer(ws)
  THEN [Counted(ws) EXCEPT !.out = <<sendError(ws, "Not a registered server")>>]
  ELSE IF Val(message.sessionId) \notin DOMAIN pendingClients
  THEN Counted(ws)
  ELSE
    LET sessionId == Val(message.sessionId)
        pending == pendingClients[sessionId]
        remoteId == wsMetadata[ws].id
        tms == clearTimeout(timers, pending.timeout)
    IN  [Counted(ws) EXCEPT
           !.timers = tms,
           !.heap = Collect(heap, servers, tms),
           !.pendingClients = pendingAfterReady(sessionId),
           !.clients = MapSet(@, sessionId,
                              [ws |-> pending.ws, remoteId |-> remoteId]),
           !.connected[sessionId] = Append(@, "session-ready"),
           !.out = <<Send(pending.ws,
                          Connected(remoteId, sessionId, readyIceServers(message)))>>]

handleSessionReady(ws, message) ==
  IF ~IsSome(message.sessionId)
  THEN [Counted(ws) EXCEPT !.out = <<sendError(ws, "Session ID required")>>]
  ELSE IF Val(message.sessionId) \notin DOMAIN pendingClients
  THEN Counted(ws)
  ELSE IF ~isServer(ws)
  THEN [Counted(ws) EXCEPT !.out = <<sendError(ws, "Not a registered server")>>]
  ELSE
    LET sessionId == Val(message.sessionId)
        pending == pendingClients[sessionId]
        remoteId == wsMetadata[ws].id
        tms == clearTimeout(timers, pending.timeout)
    IN  [Counted(ws) EXCEPT
           !.timers = tms,
           !.heap = Collect(heap, servers, tms),
           !.pendingClients = pendingAfterReady(sessionId),
           !.clients = MapSet(@, sessionId,
                              [ws |-> pending.ws, remoteId |-> remoteId]),
           !.connected[sessionId] = Append(@, "session-ready"),
           !.out = <<Send(pending.ws,
                          Connected(remoteId, sessionId, readyIceServers(message)))>>]

(***************************************************************************)
(* forwardSignalingMessage                                                 *)
(***************************************************************************)
\* The message as the client sent it
unstamped(message, sessionId) == message

\* { ...message, sessionId }
stamped(message, sessionId) == [message EXCEPT !.sessionId = Some(sessionId)]

\* A pending session is routed like an active one
forwardsWhilePending(ws, message) ==
  LET sessionId == wsMetadata[ws].id
      known == IF sessionId \in DOMAIN clients THEN clients ELSE pendingClients
  IN
  IF sessionId \notin DOMAIN known
  THEN <<sendError(ws, "Session not found")>>
  ELSE IF known[sessionId].remoteId \notin DOMAIN servers
  THEN <<sendError(ws, "Server disconnected")>>
  ELSE <<Send(serverData(known[sessionId].remoteId).ws,
              stamped(message, sessionId))>>

\* The client branch: Client -> Server
forwardFromClient(ws, message) ==
  LET sessionId == wsMetadata[ws].id IN
  IF sessionId \notin DOMAIN clients
  THEN <<sendError(ws, "Session not found")>>
  ELSE IF clients[sessionId].remoteId \notin DOMAIN servers
  THEN <<sendError(ws, "Server disconnected")>>
  ELSE <<Send(serverData(clients[sessionId].remoteId).ws,
              stamped(message, sessionId))>>

\* The server's message reaches the client without its sessionId
forwardsStripped(ws, message) ==
  IF ~IsSome(message.sessionId)
  THEN <<sendError(ws, "Session ID required")>>
  ELSE IF Val(message.sessionId) \notin DOMAIN clients
  THEN <<sendError(ws, "Client not found")>>
  ELSE <<Send(clients[Val(message.sessionId)].ws,
              [message EXCEPT !.sessionId = None])>>

\* The server branch: Server -> Client
forwardFromServer(ws, message) ==
  IF ~IsSome(message.sessionId)
  THEN <<sendError(ws, "Session ID required")>>
  ELSE IF Val(message.sessionId) \notin DOMAIN clients
  THEN <<sendError(ws, "Client not found")>>
  ELSE <<Send(clients[Val(message.sessionId)].ws, message)>>

forwardSignalingMessage(ws, message) ==
  [Counted(ws) EXCEPT
     !.out = IF ws \notin DOMAIN wsMetadata
             THEN <<sendError(ws, "Not registered")>>
             ELSE IF wsMetadata[ws].type = "client"
             THEN forwardFromClient(ws, message)
             ELSE forwardFromServer(ws, message)]

(***************************************************************************)
(* handleMessage                                                           *)
(***************************************************************************)
\* The rate limit checked for every message, ping and pong included
limitsPings(ws, message) ==
  IF ~checkRateLimit(ws).ok
  THEN [Counted(ws) EXCEPT !.out = checkRateLimit(ws).out]
  ELSE CASE message.type = "ping" ->
              [Counted(ws) EXCEPT !.out = <<Send(ws, Msg("pong"))>>]
         [] message.type = "pong" -> Counted(ws)
         [] message.type = "register-server" -> handleServerRegister(ws, message)
         [] message.type = "connect-request" -> handleConnectRequest(ws, message)
         [] message.type = "session-ready" -> handleSessionReady(ws, message)
         [] message.type \in ForwardTypes -> forwardSignalingMessage(ws, message)
         [] OTHER ->
              [Counted(ws) EXCEPT
                 !.out = <<Send(ws, ErrorMsg(<<"Unknown message type",
                                               message.type>>))>>]

handleMessage(ws, message) ==
  IF message.type \notin {"ping", "pong"} /\ ~checkRateLimit(ws).ok
  THEN [Counted(ws) EXCEPT !.out = checkRateLimit(ws).out]
  ELSE CASE message.type = "ping" -> [Cur EXCEPT !.out = <<Send(ws, Msg("pong"))>>]
         [] message.type = "pong" -> Cur
         [] message.type = "register-server" -> handleServerRegister(ws, message)
         [] message.type = "connect-request" -> handleConnectRequest(ws, message)
         [] message.type = "session-ready" -> handleSessionReady(ws, message)
         [] message.type \in ForwardTypes -> forwardSignalingMessage(ws, message)
         [] OTHER ->
              [Counted(ws) EXCEPT
                 !.out = <<Send(ws, ErrorMsg(<<"Unknown message type",
                                               message.type>>))>>]

(***************************************************************************)
(* handleDisconnect                                                        *)
(***************************************************************************)
\* The keys of a Map in the order a loop visits them (here: ascending)
RECURSIVE InOrder(_)
InOrder(S) ==
  IF S = {} THEN <<>>
  ELSE LET m == CHOOSE x \in S : \A y \in S : x <= y
       IN  <<m>> \o InOrder(S \ {m})

\* "Only delete if this WebSocket is still the registered one"
stillOwner(ws, remoteId) ==
  remoteId \in DOMAIN servers /\ serverData(remoteId).ws = ws

\* The sessions the loops of the server branch remove
boundClients(remoteId) ==
  {s \in DOMAIN clients : clients[s].remoteId = remoteId}
boundPending(remoteId) ==
  {s \in DOMAIN pendingClients : pendingClients[s].remoteId = remoteId}

\* "Notify connected clients", then "Clean up pending clients"
cascadeNotices(remoteId) ==
  LET a == InOrder(boundClients(remoteId))
      p == InOrder(boundPending(remoteId))
  IN  [i \in 1..Len(a) |-> Send(clients[a[i]].ws, Msg("peer-disconnected"))]
      \o [i \in 1..Len(p) |->
            Send(pendingClients[p[i]].ws, ErrorMsg(<<"Server disconnected">>))]

\* The timers had the loop cancelled none
timersKept(remoteId) == timers

\* The timers left by the loop over pendingClients: clearTimeout for each
timersAfterCascade(remoteId) ==
  [t \in DOMAIN timers \ {pendingClients[s].timeout : s \in boundPending(remoteId)}
     |-> timers[t]]

\* The address map had the association been left in it
ipKept(ws) == wsClientIp

\* "Clean up IP mapping"
ipAfterDisconnect(ws) == MapDelete(wsClientIp, ws)

disconnectServer(ws) ==
  LET remoteId == wsMetadata[ws].id IN
  IF stillOwner(ws, remoteId)
  THEN LET srv == MapDelete(servers, remoteId)
           tms == timersAfterCascade(remoteId)
       IN  [Cur EXCEPT
              !.servers = srv,
              !.wsMetadata = MapDelete(@, ws),
              !.clients = [s \in DOMAIN clients \ boundClients(remoteId)
                             |-> clients[s]],
              !.pendingClients = [s \in DOMAIN pendingClients \ boundPending(remoteId)
                                    |-> pendingClients[s]],
              !.timers = tms,
              !.heap = Collect(heap, srv, tms),
              !.wsClientIp = ipAfterDisconnect(ws),
              !.out = cascadeNotices(remoteId)]
  ELSE [Cur EXCEPT !.wsMetadata = MapDelete(@, ws),
                   !.wsClientIp = ipAfterDisconnect(ws)]

disconnectClient(ws) ==
  LET sessionId == wsMetadata[ws].id
      isPending == sessionId \in DOMAIN pendingClients
      isActive == sessionId \in DOMAIN clients
      tms == IF isPending
             THEN clearTimeout(timers, pendingClients[sessionId].timeout)
             ELSE timers
  IN  [Cur EXCEPT
         !.timers = tms,
         !.heap = Collect(heap, servers, tms),
         !.pendingClients = IF isPending THEN MapDelete(@, sessionId) ELSE @,
         !.clients = IF isActive THEN MapDelete(@, sessionId) ELSE @,
         !.wsMetadata = MapDelete(@, ws),
         !.wsClientIp = ipAfterDisconnect(ws),
         !.out = IF isActive /\ clients[sessionId].remoteId \in DOMAIN servers
                 THEN <<Send(serverData(clients[sessionId].remoteId).ws,
                             [Msg("client-disconnected") EXCEPT
                                !.sessionId = Some(sessionId)])>>
                 ELSE <<>>]

handleDisconnect(ws) ==
  IF ws \notin DOMAIN wsMetadata THEN Cur
  ELSE IF wsMetadata[ws].type = "server" THEN disconnectServer(ws)
  ELSE disconnectClient(ws)

(***************************************************************************)
(* The behaviours: the adapter hands the core one event at a time.         *)
(***************************************************************************)
\* The ids of calls that come out pairwise different, as all but a 62^-16
\* part of the draws do
distinctIds == [i \in 1..(MaxSessions + 1) |-> i]

InitCore ==
  [servers |-> EmptyMap, heap |-> EmptyMap, clients |-> EmptyMap,
   pendingClients |-> EmptyMap, wsMetadata |-> EmptyMap,
   wsClientIp |-> EmptyMap, timers |-> EmptyMap, generated |-> 0,
   requests |-> EmptyMap, failedLookups |-> EmptyMap,
   connected |-> [s \in SessionIds |-> <<>>], closed |-> {},
   random |-> distinctIds,
   issued |-> [s \in 1..(MaxSessions + 1) |-> <<>>],
   out |-> <<>>]

Init ==
  /\ core = InitCore
  /\ now = 0
  /\ ticks = 0
  /\ open = WS

\* The handler has run and left r; what it sent is with the adapter
Becomes(r) == core' = [r EXCEPT !.out = <<>>]

\* A message of an open connection arrives.  generateSessionId is asked for
\* at most MaxSessions ids.
Receive(r) ==
  /\ r.generated <= MaxSessions
  /\ Becomes(r)
  /\ UNCHANGED <<now, ticks, open>>

ReceivePing(ws, message) ==
  LET r == handleMessage(ws, message) IN
  /\ ws \in open
  /\ Receive(r)

ReceivePong(ws, message) ==
  LET r == handleMessage(ws, message) IN
  /\ ws \in open
  /\ Receive(r)

ReceiveUnknown(ws, message) ==
  LET r == handleMessage(ws, message) IN
  /\ ws \in open
  /\ Receive(r)

ReceiveRegisterServer(ws, message) ==
  LET r == handleMessage(ws, message) IN
  /\ ws \in open
  /\ Receive(r)

ReceiveConnectRequest(ws, message) ==
  LET r == handleMessage(ws, message) IN
  /\ ws \in open
  /\ Receive(r)

ReceiveSessionReady(ws, message) ==
  LET r == handleMessage(ws, message) IN
  /\ ws \in open
  /\ Receive(r)

ReceiveForward(ws, message) ==
  LET r == handleMessage(ws, message) IN
  /\ ws \in open
  /\ Receive(r)


\* The timer t comes due
TimerFires(t) ==
  LET r == timeout(t) IN
  /\ t \in DOMAIN timers
  /\ Becomes(r)
  /\ UNCHANGED <<now, ticks, open>>

\* The adapter reports the close of ws; its handle is not used again
Disconnect(ws) ==
  LET r == handleDisconnect(ws) IN
  /\ ws \in open
  /\ open' = open \ {ws}
  /\ Becomes(r)
  /\ UNCHANGED <<now, ticks>>

\* The connections that act as servers and those that act as clients
ServerConns == {"w1", "w2"}
ClientConns == {"w3"}

\* The events of the core, the messages drawn from the given connections
\* and remoteId strings
NextOver(serverConns, clientConns, ids) ==
  \/ \E ws \in WS, m \in PingMsgs : ReceivePing(ws, m)
  \/ \E ws \in WS, m \in PongMsgs : ReceivePong(ws, m)
  \/ \E ws \in WS, m \in UnknownMsgs : ReceiveUnknown(ws, m)
  \/ \E ws \in serverConns, m \in RegisterMsgs(ids, CachedLists) : ReceiveRegisterServer(ws, m)
  \/ \E ws \in clientConns, m \in ConnectMsgs(ids) : ReceiveConnectRequest(ws, m)
  \/ \E ws \in WS, m \in ReadyMsgs(FreshLists) : ReceiveSessionReady(ws, m)
  \/ \E ws \in WS, m \in ForwardMsgs : ReceiveForward(ws, m)
  \/ \E t \in SessionIds : TimerFires(t)
  \/ \E ws \in WS : Disconnect(ws)

\* No connection has an address: the rate limiter is never consulted
Next == NextOver(ServerConns, ClientConns, RawIds)

Spec == Init /\ [][Next]_vars

(***************************************************************************)
(* The core with addresses: the adapter gives a connection its address     *)
(* with setClientIp, and the clock advances.                               *)
(***************************************************************************)
\* setClientIp(ws, ip)
setClientIp(c, ws, ip) == [c EXCEPT !.wsClientIp = MapSet(@, ws, ip)]

\* By how much the clock advances between two events
TickSteps == {windowMs + 1}

Tick(d) ==
  /\ ticks < MaxTicks
  /\ ticks' = ticks + 1
  /\ now' = now + d
  /\ UNCHANGED <<core, open>>

\* rateLimiter.cleanup(), called from the core's interval
Cleanup ==
  /\ Becomes([Cur EXCEPT !.requests = cleanupRequests(requests, now),
                         !.failedLookups = cleanupFailedLookups(failedLookups, now)])
  /\ UNCHANGED <<now, ticks, open>>

\* The connections the adapter gives an address when it accepts them
AddressConns == {"w2", "w3"}

RECURSIVE withAddresses(_, _)
withAddresses(c, conns) ==
  IF conns = {} THEN c
  ELSE LET ws == CHOOSE x \in conns : TRUE
       IN withAddresses(setClientIp(c, ws, "ip1"), conns \ {ws})

InitIp ==
  /\ core = withAddresses(InitCore, AddressConns)
  /\ now = 0
  /\ ticks = 0
  /\ open = WS

NextIp ==
  \/ NextOver({"w1"}, {"w3"}, RawIds)
  \/ Cleanup
  \/ \E d \in TickSteps : Tick(d)

SpecIp == InitIp /\ [][NextIp]_vars

(***************************************************************************)
(* The rate limiter on its own: its three methods called in any order as   *)
(* the clock advances.                                                     *)
(***************************************************************************)
\* No address is held more than MaxViolations violations against
bounded(reqs) == \A ip \in DOMAIN reqs : reqs[ip].violations <= MaxViolations

CheckRequest(ip) ==
  LET r == checkRequest(requests, ip, now) IN
  /\ bounded(r.requests)
  /\ Becomes([Cur EXCEPT !.requests = r.requests])
  /\ UNCHANGED <<now, ticks, open>>

RecordFailedLookup(ip) ==
  LET r == recordFailedLookup(requests, failedLookups, ip, now) IN
  /\ bounded(r.requests)
  /\ Becomes([Cur EXCEPT !.requests = r.requests,
                         !.failedLookups = r.failedLookups])
  /\ UNCHANGED <<now, ticks, open>>

\* The clock advances past a window, or past the longest block
LimiterTickSteps == {windowMs + 1, MaxBlockDurationMs}

LimiterTick(d) ==
  /\ ticks < MaxLimiterTicks
  /\ ticks' = ticks + 1
  /\ now' = now + d
  /\ UNCHANGED <<core, open>>

NextRL ==
  \/ \E ip \in Ips : CheckRequest(ip)
  \/ \E ip \in Ips : RecordFailedLookup(ip)
  \/ Cleanup
  \/ \E d \in LimiterTickSteps : LimiterTick(d)

SpecRL == Init /\ [][NextRL]_vars

(***************************************************************************)
(* Two servers under two remoteIds: w1 registers "a1", w2 registers "b",   *)
(* and w3 asks for either.                                                 *)
(***************************************************************************)
FirstIds == {<<97, 49>>}
SecondIds == {<<98>>}

NextTwoIds ==
  \/ \E ws \in WS, m \in PingMsgs : ReceivePing(ws, m)
  \/ \E ws \in WS, m \in PongMsgs : ReceivePong(ws, m)
  \/ \E ws \in WS, m \in UnknownMsgs : ReceiveUnknown(ws, m)
  \/ \E m \in RegisterMsgs(FirstIds, CachedLists) : ReceiveRegisterServer("w1", m)
  \/ \E m \in RegisterMsgs(SecondIds, CachedLists) : ReceiveRegisterServer("w2", m)
  \/ \E m \in ConnectMsgs(FirstIds \cup SecondIds) : ReceiveConnectRequest("w3", m)
  \/ \E ws \in WS, m \in ReadyMsgs(FreshLists) : ReceiveSessionReady(ws, m)
  \/ \E ws \in WS, m \in ForwardMsgs : ReceiveForward(ws, m)
  \/ \E t \in SessionIds : TimerFires(t)
  \/ \E ws \in WS : Disconnect(ws)

SpecTwoIds == Init /\ [][NextTwoIds]_vars

(***************************************************************************)
(* Any draws of generateSessionId: an id may come out that is in use.      *)
(***************************************************************************)
\* The ids of the MaxSessions calls a behaviour makes are any ids
anyIds(f) == [i \in 1..(MaxSessions + 1) |-> IF i <= MaxSessions THEN f[i] ELSE i]

InitAnyIds ==
  /\ \E f \in [SessionIds -> SessionIds] :
       core = [InitCore EXCEPT !.random = anyIds(f)]
  /\ now = 0
  /\ ticks = 0
  /\ open = WS

NextAnyIds == NextOver({"w1"}, {"w2", "w3"}, RawIds)

SpecAnyIds == InitAnyIds /\ [][NextAnyIds]_vars

(***************************************************************************)
(* A connection in more than one role: w1 registers under "a1" and under   *)
(* "b" and sends connect-requests as well; w3 sends connect-requests.      *)
(***************************************************************************)
RoleConns == {"w1", "w3"}

NextRoles ==
  \/ \E ws \in RoleConns, m \in PingMsgs : ReceivePing(ws, m)
  \/ \E ws \in RoleConns, m \in PongMsgs : ReceivePong(ws, m)
  \/ \E ws \in RoleConns, m \in UnknownMsgs : ReceiveUnknown(ws, m)
  \/ \E m \in RegisterMsgs(FirstIds \cup SecondIds, CachedLists) :
       ReceiveRegisterServer("w1", m)
  \/ \E ws \in RoleConns, m \in ConnectMsgs(FirstIds) : ReceiveConnectRequest(ws, m)
  \/ \E ws \in RoleConns, m \in ReadyMsgs(FreshLists) : ReceiveSessionReady(ws, m)
  \/ \E ws \in RoleConns, m \in ForwardMsgs : ReceiveForward(ws, m)
  \/ \E t \in SessionIds : TimerFires(t)
  \/ \E ws \in RoleConns : Disconnect(ws)

SpecRoles == Init /\ [][NextRoles]_vars

(***************************************************************************)
(* The event loop runs the callback of every timer that stays armed: the   *)
(* events of Spec, and each armed timer comes due.                         *)
(***************************************************************************)
TimersComeDue == \A t \in SessionIds : WF_vars(TimerFires(t))

SpecFair == Init /\ [][Next]_vars /\ TimersComeDue

(***************************************************************************)
(* What is claimed of the program.  A handler's effect is read off the     *)
(* core it leaves: post.out holds what it sent.                            *)
(***************************************************************************)
\* The messages of the given type that post sent to connection ws
sentTo(post, ws, type) ==
  {i \in 1..Len(post.out) :
     /\ post.out[i].kind = "send"
     /\ post.out[i].to = ws
     /\ post.out[i].msg.type = type}

\* The 'connected' messages post sent, to anyone
connectedSent(post) ==
  {i \in 1..Len(post.out) :
     post.out[i].kind = "send" /\ post.out[i].msg.type = "connected"}

\* The session-ready messages for session sid
ReadyFor(sid) == {m \in ReadyMsgs(FreshLists) : m.sessionId = Some(sid)}

\* post promoted the pending session sid: it is active, not pending, no timer
\* is armed for it, and its client was sent exactly one 'connected', for sid
promoted(post, sid) ==
  /\ sid \in DOMAIN post.clients
  /\ sid \notin DOMAIN post.pendingClients
  /\ \A t \in DOMAIN post.timers : post.timers[t].sessionId # sid
  /\ Cardinality(connectedSent(post)) = 1
  /\ \A i \in connectedSent(post) :
       /\ post.out[i].to = pendingClients[sid].ws
       /\ post.out[i].msg.sessionId = Some(sid)

\* post left everything as it was and sent nothing
nothingDone(post) == post = core

\* C1: a pending session is promoted by whichever of session-ready and the
\* deadline timer comes first, each of which moves it to the active sessions
\* and sends its client one 'connected'; once promoted the session is not
\* pending, 'connected' was sent for it exactly once, and whichever of the two
\* comes afterwards changes nothing and sends nothing.
PromotedExactlyOnce ==
  \A sid \in SessionIds :
    /\ Len(connected[sid]) <= 1
    /\ sid \in DOMAIN pendingClients =>
         /\ connected[sid] = <<>>
         /\ \E t \in DOMAIN timers : timers[t].sessionId = sid
         /\ \A t \in DOMAIN timers :
              timers[t].sessionId = sid => promoted(timeout(t), sid)
         /\ \A ws \in open, m \in ReadyFor(sid) :
              isServer(ws) => promoted(handleMessage(ws, m), sid)
    /\ connected[sid] # <<>> =>
         /\ sid \notin DOMAIN pendingClients
         /\ \A ws \in open, m \in ReadyFor(sid) :
              nothingDone(handleMessage(ws, m))
         /\ \A t \in DOMAIN timers :
              timers[t].sessionId = sid =>
                /\ connectedSent(timeout(t)) = {}
                /\ timeout(t).clients = clients
                /\ timeout(t).pendingClients = pendingClients

\* One session was promoted by the timer and is still active, another by
\* session-ready, and a registered server is there to send a late
\* session-ready
PromotedBothWays ==
  \E s1, s2 \in SessionIds :
    /\ connected[s1] = <<"timeout">>
    /\ connected[s2] = <<"session-ready">>
    /\ s1 \in DOMAIN clients
    /\ \E ws \in open : isServer(ws)

\* Two strings that differ at most in the case of their letters
sameLetter(x, y) ==
  x = y \/ (x \in 65..90 /\ y = x + 32) \/ (y \in 65..90 /\ x = y + 32)
sameButCase(a, b) ==
  Len(a) = Len(b) /\ \A i \in 1..Len(a) : sameLetter(a[i], b[i])

\* A register-server or connect-request that carries a non-empty remoteId
named(m) == m.remoteId # None /\ Val(m.remoteId) # <<>>

\* The session ids generateSessionId may return next
NextSessionIds == 1..(MaxSessions + 1)

\* C2: a connect-request naming a registered server in any letter case sends
\* that server one 'client-connected' with a new session id, pending for the
\* requesting connection; a session-ready for a pending session from a
\* connection with server identity sends the session's client exactly one
\* 'connected', whose iceServers is the list of the session-ready message.
FreshIceDelivered ==
  /\ \A ws \in open, m \in ConnectMsgs(AllRawIds), k \in DOMAIN servers :
       (named(m) /\ sameButCase(k, Val(m.remoteId))) =>
         LET post == handleMessage(ws, m) IN
         \E sid \in NextSessionIds :
           /\ sid \notin DOMAIN pendingClients \cup DOMAIN clients
           /\ post.out = <<Send(heap[servers[k]].ws, ClientConnected(sid))>>
           /\ sid \in DOMAIN post.pendingClients
           /\ post.pendingClients[sid].ws = ws
  /\ \A sid \in DOMAIN pendingClients, ws \in open :
       \A m \in ReadyFor(sid) :
       isServer(ws) =>
         LET post == handleMessage(ws, m) IN
         /\ Cardinality(connectedSent(post)) = 1
         /\ \A i \in connectedSent(post) :
              /\ post.out[i].to = pendingClients[sid].ws
              /\ post.out[i].msg.sessionId = Some(sid)
              /\ post.out[i].msg.iceServers = m.iceServers

\* One session was completed by session-ready, and another is pending on a
\* server whose cached list is "C" and whose connection can answer it
FreshIceCase ==
  \E s1 \in SessionIds, s2 \in DOMAIN pendingClients :
    /\ connected[s1] = <<"session-ready">>
    /\ pendingClients[s2].remoteId \in DOMAIN servers
    /\ serverData(pendingClients[s2].remoteId).iceServers = Some("C")
    /\ serverData(pendingClients[s2].remoteId).ws \in open
    /\ isServer(serverData(pendingClients[s2].remoteId).ws)

\* C3: when the deadline timer of a session that is still pending fires, the
\* session becomes active and its client is sent one 'connected' carrying the
\* list cached, at that moment, on the registration the connect-request found.
FallbackIceDelivered ==
  \A t \in DOMAIN timers :
    LET sid == timers[t].sessionId
        post == timeout(t)
    IN  /\ timers[t].serverData \in DOMAIN heap
        /\ sid \in DOMAIN pendingClients =>
             /\ sid \in DOMAIN post.clients
             /\ sid \notin DOMAIN post.pendingClients
             /\ post.out =
                  <<Send(pendingClients[sid].ws,
                         Connected(pendingClients[sid].remoteId, sid,
                                   heap[timers[t].serverData].iceServers))>>
             /\ servers[pendingClients[sid].remoteId] = timers[t].serverData =>
                  post.out[1].msg.iceServers =
                    heap[servers[pendingClients[sid].remoteId]].iceServers

\* A session was completed by its timer and is active, and a timer is armed
\* for a pending session on a registration whose cached list is "C"
FallbackIceCase ==
  /\ \E sid \in DOMAIN clients : connected[sid] = <<"timeout">>
  /\ \E t \in DOMAIN timers :
       /\ timers[t].sessionId \in DOMAIN pendingClients
       /\ heap[timers[t].serverData].iceServers = Some("C")

\* C4: when a connection registers a remoteId that another connection holds,
\* the close callback is called on the other with code 4000, and afterwards
\* the registry entry of the remoteId is the registering connection and the
\* other has no identity.
EvictionReplaces ==
  \A ws \in open, m \in RegisterMsgs(AllRawIds, IceLists), k \in DOMAIN servers :
    (named(m) /\ sameButCase(k, Val(m.remoteId)) /\ heap[servers[k]].ws # ws) =>
      LET a == heap[servers[k]].ws
          post == handleMessage(ws, m)
      IN  /\ \E i \in 1..Len(post.out) :
               /\ post.out[i].kind = "close"
               /\ post.out[i].to = a
               /\ post.out[i].msg.code = CloseReplaced
          /\ <<a, CloseReplaced>> \in post.closed
          /\ k \in DOMAIN post.servers
          /\ post.heap[post.servers[k]].ws = ws
          /\ \A j \in DOMAIN post.servers : post.heap[post.servers[j]].ws # a
          /\ a \notin DOMAIN post.wsMetadata
          /\ post.wsMetadata[ws] = [type |-> "server", id |-> k]

\* A connection was closed with 4000, has no identity and is still open, and
\* another connection holds a registration
EvictionCase ==
  \E a, b \in WS, k \in DOMAIN servers :
    /\ a # b
    /\ <<a, CloseReplaced>> \in closed
    /\ a \in open
    /\ a \notin DOMAIN wsMetadata
    /\ serverData(k).ws = b

\* C5: after a register-server with a non-empty remoteId r, isOnline is true
\* of every string that differs from r only in letter case; the keys of the
\* registry hold no lower-case letter.
OnlineInAnyCase ==
  /\ \A ws \in open, m \in RegisterMsgs(AllRawIds, IceLists) :
       named(m) =>
         \A r \in AllRawIds :
           sameButCase(r, Val(m.remoteId)) => isOnline(handleMessage(ws, m), r)
  /\ \A k \in DOMAIN servers : \A i \in 1..Len(k) : k[i] \notin 97..122

\* A server is registered, and is online under "a1" and under "A1"
OnlineCase ==
  /\ DOMAIN servers # {}
  /\ isOnline(core, <<97, 49>>)
  /\ isOnline(core, <<65, 49>>)

\* C6: when the connection that owns the registration of R disconnects, every
\* active session of R has 'peer-disconnected' sent to its client and is
\* removed, every pending session of R has its timer cancelled, 'Server
\* disconnected' sent to its client and is removed, and R is not online; a
\* register-server for a remoteId that is not online closes no connection.
ServerDisconnectCascades ==
  /\ \A ws \in open :
       (/\ isServer(ws)
        /\ wsMetadata[ws].id \in DOMAIN servers
        /\ heap[servers[wsMetadata[ws].id]].ws = ws) =>
         LET R == wsMetadata[ws].id
             post == handleDisconnect(ws)
         IN  /\ \A s \in DOMAIN clients :
                  clients[s].remoteId = R =>
                    /\ sentTo(post, clients[s].ws, "peer-disconnected") # {}
                    /\ s \notin DOMAIN post.clients
             /\ \A s \in DOMAIN pendingClients :
                  pendingClients[s].remoteId = R =>
                    /\ pendingClients[s].timeout \notin DOMAIN post.timers
                    /\ \E i \in sentTo(post, pendingClients[s].ws, "error") :
                         post.out[i].msg.error = Some(<<"Server disconnected">>)
                    /\ s \notin DOMAIN post.pendingClients
             /\ R \notin DOMAIN post.servers
             /\ \A r \in AllRawIds : sameButCase(r, R) => ~isOnline(post, r)
  /\ \A ws \in open, m \in RegisterMsgs(AllRawIds, IceLists) :
       (named(m) /\ \A k \in DOMAIN servers : ~sameButCase(k, Val(m.remoteId))) =>
         LET post == handleMessage(ws, m) IN
         /\ post.closed = closed
         /\ \A i \in 1..Len(post.out) : post.out[i].kind # "close"
         /\ sentTo(post, ws, "registered") # {}
         /\ \E k \in DOMAIN post.servers : post.heap[post.servers[k]].ws = ws

\* No server is registered; an active session and a pending session are gone
\* although their client, still open, never disconnected
CascadeCase ==
  \E s1, s2 \in SessionIds, ws \in open :
    /\ DOMAIN servers = {}
    /\ connected[s1] # <<>>
    /\ s1 \notin DOMAIN clients
    /\ s2 <= generated
    /\ connected[s2] = <<>>
    /\ s2 \notin DOMAIN pendingClients
    /\ ws \in DOMAIN wsMetadata
    /\ wsMetadata[ws] = [type |-> "client", id |-> s2]

\* C8: whatever a connection with client identity sends as offer, answer or
\* ice-candidate is either answered with an error to itself or delivered,
\* once, to the connection registered under the remoteId of the session its
\* identity names, with that session's id as sessionId whatever sessionId
\* the message carried.
ForwardStampsSession ==
  \A ws \in open, m \in ForwardMsgs :
    (ws \in DOMAIN wsMetadata /\ wsMetadata[ws].type = "client") =>
      LET sid == wsMetadata[ws].id
          post == handleMessage(ws, m)
          live == sid \in DOMAIN clients /\ clients[sid].remoteId \in DOMAIN servers
      IN  /\ Len(post.out) = 1
          /\ post.out[1].kind = "send"
          /\ live =>
               /\ post.out[1].to = heap[servers[clients[sid].remoteId]].ws
               /\ post.out[1].msg.type = m.type
               /\ post.out[1].msg.data = m.data
               /\ post.out[1].msg.sessionId = Some(sid)
          /\ ~live =>
               /\ post.out[1].to = ws
               /\ post.out[1].msg.type = "error"

\* A client whose identity names an active session of an online server,
\* while another session, which its message could name, is active too
ForwardCase ==
  \E ws \in open, s1 \in DOMAIN clients :
    /\ ws \in DOMAIN wsMetadata
    /\ wsMetadata[ws].type = "client"
    /\ wsMetadata[ws].id \in DOMAIN clients
    /\ wsMetadata[ws].id # s1
    /\ clients[wsMetadata[ws].id].remoteId \in DOMAIN servers

\* The rate limiter lets a message of ws through
admitted(ws) ==
  ws \in DOMAIN wsClientIp => checkRequest(requests, wsClientIp[ws], now).allowed

\* The failed lookups counted against ip in the window that is running
lookupsInWindow(ip) ==
  IF ip \in DOMAIN failedLookups
     /\ now - failedLookups[ip].windowStart <= failedLookupWindowMs
  THEN failedLookups[ip].count
  ELSE 0

\* C7: a connect-request that names a remoteId nobody registered, and that
\* the rate limiter lets through, leaves the pending sessions, the timers,
\* the identities and the active sessions as they were, sends to nobody but
\* its sender, and counts one more failed lookup against the sender's
\* address (the count that reaches maxFailedLookups starts again at zero).
LookupFailureCounted ==
  \A ws \in open, m \in ConnectMsgs(AllRawIds) :
    (/\ named(m)
     /\ \A k \in DOMAIN servers : ~sameButCase(k, Val(m.remoteId))
     /\ admitted(ws)) =>
      LET post == handleMessage(ws, m) IN
      /\ post.pendingClients = pendingClients
      /\ post.timers = timers
      /\ post.wsMetadata = wsMetadata
      /\ post.clients = clients
      /\ post.generated = generated
      /\ Len(post.out) >= 1
      /\ \A i \in 1..Len(post.out) : post.out[i].to = ws
      /\ ws \notin DOMAIN wsClientIp => post.failedLookups = failedLookups
      /\ ws \in DOMAIN wsClientIp =>
           LET ip == wsClientIp[ws] IN
           /\ ip \in DOMAIN post.failedLookups
           /\ post.failedLookups[ip].count =
                IF lookupsInWindow(ip) + 1 >= maxFailedLookups THEN 0
                ELSE lookupsInWindow(ip) + 1
           /\ \A j \in DOMAIN failedLookups \ {ip} :
                post.failedLookups[j] = failedLookups[j]

\* One failed lookup is counted against the address, and there is no
\* pending session, no timer and no identity
LookupFailureCase ==
  /\ "ip1" \in DOMAIN failedLookups
  /\ failedLookups["ip1"].count = 1
  /\ DOMAIN pendingClients = {}
  /\ DOMAIN timers = {}
  /\ DOMAIN wsMetadata = {}
  /\ generated = 0

\* The limiter's map after n more requests of ip at time t
RECURSIVE afterRequests(_, _, _, _)
afterRequests(reqs, ip, t, n) ==
  IF n = 0 THEN reqs
  ELSE afterRequests(checkRequest(reqs, ip, t).requests, ip, t, n - 1)

\* ip is blocked now
inBlock(ip) ==
  /\ ip \in DOMAIN requests
  /\ requests[ip].blocked
  /\ now < requests[ip].blockExpires

\* The next request of ip opens a window: nothing is held against ip, or its
\* block or its window has run out
opensWindow(ip) ==
  \/ ip \notin DOMAIN requests
  \/ requests[ip].blocked /\ now >= requests[ip].blockExpires
  \/ ~requests[ip].blocked /\ now - requests[ip].windowStart > windowMs

\* baseBlockDurationMs * 2^(n-1), for n >= 1
RECURSIVE doubled(_)
doubled(n) == IF n <= 1 THEN baseBlockDurationMs ELSE 2 * doubled(n - 1)

\* C9: of the requests of an address in one window the first maxRequests are
\* allowed and the next is blocked; in a running window a request is allowed
\* exactly if fewer than maxRequests were counted; a blocked address is
\* refused; the block that a request starts lasts baseBlockDurationMs at the
\* first violation and baseBlockDurationMs * 2^(violations-1) in general, but
\* never more than 3,600,000 ms.
RequestsLimited ==
  \A ip \in Ips :
    LET r == checkRequest(requests, ip, now) IN
    /\ opensWindow(ip) =>
         /\ \A n \in 1..maxRequests :
              checkRequest(afterRequests(requests, ip, now, n - 1), ip, now).allowed
         /\ ~checkRequest(afterRequests(requests, ip, now, maxRequests), ip, now).allowed
    /\ (~inBlock(ip) /\ ~opensWindow(ip)) =>
         (r.allowed <=> requests[ip].count < maxRequests)
    /\ inBlock(ip) => (~r.allowed /\ r.requests = requests)
    /\ (~inBlock(ip) /\ ~r.allowed) =>
         LET v == r.requests[ip].violations
             duration == r.requests[ip].blockExpires - now
         IN  /\ r.requests[ip].blocked
             /\ v >= 1
             /\ v = 1 => duration = baseBlockDurationMs
             /\ duration = IF doubled(v) > MaxBlockDurationMs
                           THEN MaxBlockDurationMs ELSE doubled(v)
             /\ duration <= MaxBlockDurationMs
             /\ r.retryAfter = Some(CeilDiv(duration, MsPerSecond))

\* A request has just started the seventh block of the address, which lasts
\* the hour of the cap and not the 64 minutes of the doubling; no lookup
\* failed since the clock last advanced
RequestsLimitedCase ==
  /\ "ip1" \in DOMAIN requests
  /\ requests["ip1"].blocked
  /\ requests["ip1"].count = maxRequests + 1
  /\ requests["ip1"].violations = 7
  /\ requests["ip1"].blockExpires = now + MaxBlockDurationMs
  /\ "ip1" \in DOMAIN failedLookups
  /\ failedLookups["ip1"].windowStart < now

\* C10: the failed lookup that brings the count of an address in the running
\* window to maxFailedLookups returns true, leaves the address's request
\* record blocked (a record is made if there was none) and the count at
\* zero; a failed lookup below that returns false, leaves the request records
\* as they were and the count one higher.
LookupsBlock ==
  \A ip \in Ips :
    LET r == recordFailedLookup(requests, failedLookups, ip, now) IN
    /\ lookupsInWindow(ip) < maxFailedLookups
    /\ lookupsInWindow(ip) + 1 >= maxFailedLookups =>
         /\ r.blocked
         /\ ip \in DOMAIN r.requests
         /\ r.requests[ip].blocked
         /\ r.requests[ip].blockExpires > now
         /\ r.failedLookups[ip].count = 0
    /\ lookupsInWindow(ip) + 1 < maxFailedLookups =>
         /\ ~r.blocked
         /\ r.requests = requests
         /\ r.failedLookups[ip].count = lookupsInWindow(ip) + 1

\* Failed lookups alone have blocked the address: the request record, which
\* counted no request, was made by recordFailedLookup, and the count of
\* failed lookups is back at zero
LookupsBlockCase ==
  /\ "ip1" \in DOMAIN requests
  /\ requests["ip1"].blocked
  /\ requests["ip1"].count = 0
  /\ requests["ip1"].violations = 2
  /\ now < requests["ip1"].blockExpires
  /\ "ip1" \in DOMAIN failedLookups
  /\ failedLookups["ip1"].count = 0

\* C11: when a session-ready promotes a pending session, the active session
\* it leaves carries the remoteId stored in the pending record, whichever
\* registered server sent the session-ready.
ReadyKeepsRemoteId ==
  \A sid \in DOMAIN pendingClients :
    \A ws \in open, m \in ReadyFor(sid) :
      LET post == handleMessage(ws, m) IN
      sid \in DOMAIN post.clients =>
        post.clients[sid].remoteId = pendingClients[sid].remoteId

\* C12: a session-ready for a session id that is not pending, whoever sends
\* it, sends nothing to anyone (no error to the caller either) and leaves
\* servers, clients, pendingClients and the identity map as they were.
StaleReadyIgnored ==
  \A sid \in SessionIds \ DOMAIN pendingClients :
    \A ws \in open, m \in ReadyFor(sid) :
      LET post == handleMessage(ws, m) IN
      /\ post.out = <<>>
      /\ post.servers = servers
      /\ post.clients = clients
      /\ post.pendingClients = pendingClients
      /\ post.wsMetadata = wsMetadata

\* One session id was issued and its session discarded before any promotion,
\* another was never issued, and both a registered server and a connection
\* that is no server are there to send the session-ready
StaleReadyCase ==
  /\ \E s1, s2 \in SessionIds :
       /\ s1 <= generated /\ s2 > generated
       /\ s1 \notin DOMAIN pendingClients \cup DOMAIN clients
       /\ connected[s1] = <<>>
  /\ \E ws \in open : isServer(ws)
  /\ \E ws \in open : ~isServer(ws)

\* The connection was closed as replaced and holds no registration now
replaced(ws) ==
  /\ <<ws, CloseReplaced>> \in closed
  /\ \A r \in DOMAIN servers : serverData(r).ws # ws

\* C13: once connection A has been replaced by B as the registrant of a
\* remoteId, the disconnect of A leaves the registration with B, removes no
\* pending and no active session, cancels no timer and sends nothing to
\* anyone: A has no identity left, and handleDisconnect returns at once.
ReplacedDisconnectInert ==
  \A ws \in open :
    replaced(ws) /\ servers # EmptyMap =>
      LET post == handleDisconnect(ws) IN
      /\ post.servers = servers
      /\ \A r \in DOMAIN servers : post.heap[post.servers[r]] = serverData(r)
      /\ post.clients = clients
      /\ post.pendingClients = pendingClients
      /\ post.timers = timers
      /\ post.wsMetadata = wsMetadata
      /\ post.out = <<>>

\* A replaced connection is still to disconnect while its successor holds
\* the registration, with an active and a pending session under it
ReplacedCase ==
  \E ws \in open, r \in DOMAIN servers :
    /\ replaced(ws)
    /\ serverData(r).ws \in open
    /\ boundClients(r) # {}
    /\ boundPending(r) # {}

\* No session id is both pending and active
keysDisjoint == DOMAIN pendingClients \cap DOMAIN clients = {}

\* The connections that session id sid names: the one of its pending record,
\* the one of its active session, and those whose identity is the id
namedBy(sid) ==
  {pendingClients[s].ws : s \in {sid} \cap DOMAIN pendingClients}
    \cup {clients[s].ws : s \in {sid} \cap DOMAIN clients}
    \cup {ws \in DOMAIN wsMetadata :
            wsMetadata[ws].type = "client" /\ wsMetadata[ws].id = sid}

\* The calls of generateSessionId made so far returned pairwise different ids
drawsDiffer ==
  \A i, j \in 1..generated : i # j => random[i] # random[j]

referenced(c, ws) ==
  \/ \E r \in DOMAIN c.servers : c.heap[c.servers[r]].ws = ws
  \/ \E s \in DOMAIN c.clients : c.clients[s].ws = ws
  \/ \E s \in DOMAIN c.pendingClients : c.pendingClients[s].ws = ws
  \/ ws \in DOMAIN c.wsMetadata

\* C15: once handleDisconnect has run for a connection, whatever the
\* connection sent before, no entry of servers, clients, pendingClients or
\* the identity map refers to it, and no armed timer leaves such an entry
\* when it fires.
NoLeakAfterDisconnect ==
  \A ws \in WS \ open :
    /\ ~referenced(core, ws)
    /\ \A t \in DOMAIN timers : ~referenced(timeout(t), ws)

\* The register-server messages with which ws would replace the registrant
\* of remoteId r
Replacing(ws, r) ==
  {m \in RegisterMsgs(RawIds, CachedLists) :
     /\ ~Falsy(canonical(m))
     /\ Val(canonical(m)) = r
     /\ serverData(r).ws # ws}

\* The active sessions of c bound to remoteId r
activeUnder(c, r) == {x \in DOMAIN c.clients : c.clients[x].remoteId = r}

\* C16 as claimed: after a register-server that replaces the registrant of
\* remoteId R, no active session bound to R is left in clients.
ReplacementDestroysSessions ==
  \A r \in DOMAIN servers :
    \A ws \in open :
      \A m \in Replacing(ws, r) :
        activeUnder(handleMessage(ws, m), r) = {}

\* C16, amended: an active session is destroyed when either end disconnects,
\* and not when its server's registration is replaced: a register-server that
\* replaces the registrant of R leaves every active session in clients as it
\* was, the disconnect of the connection that holds R and has the server
\* identity R removes every active session bound to R, and the disconnect of
\* a client removes the session its identity names.
SessionsOutliveReplacement ==
  /\ \A r \in DOMAIN servers :
       /\ \A ws \in open :
            \A m \in Replacing(ws, r) :
              handleMessage(ws, m).clients = clients
       /\ (/\ serverData(r).ws \in open
           /\ serverData(r).ws \in DOMAIN wsMetadata
           /\ wsMetadata[serverData(r).ws] = [type |-> "server", id |-> r]) =>
            activeUnder(handleDisconnect(serverData(r).ws), r) = {}
  /\ \A ws \in open :
       ws \in DOMAIN wsMetadata /\ wsMetadata[ws].type = "client" =>
         wsMetadata[ws].id \notin DOMAIN handleDisconnect(ws).clients

\* An active session is bound to a remoteId whose registrant, the session's
\* client and a connection that can replace the registrant are all open
ReplacementCase ==
  \E r \in DOMAIN servers, ws \in open :
    /\ Replacing(ws, r) # {}
    /\ ws \in ServerConns
    /\ serverData(r).ws \in open
    /\ \E x \in activeUnder(core, r) :
         /\ clients[x].ws \in open
         /\ wsMetadata[clients[x].ws] = [type |-> "client", id |-> x]

\* The window of ip is running and maxRequests requests were counted in it
overLimit(ip) ==
  /\ ~inBlock(ip)
  /\ ~opensWindow(ip)
  /\ requests[ip].count >= maxRequests

\* The messages that are neither ping nor pong
LimitedMsgs ==
  RegisterMsgs(RawIds, CachedLists) \cup ConnectMsgs(RawIds)
    \cup ReadyMsgs(FreshLists) \cup ForwardMsgs \cup UnknownMsgs

\* C17: a message other than ping and pong whose sender's address is blocked,
\* or has used up the requests of its window, changes no registration, no
\* session, no timer and no identity and is forwarded to nobody; the one
\* message sent is an error to the sender that carries the seconds, rounded
\* up, until the block of the address ends.
LimitedBeforeDispatch ==
  \A ws \in open \cap DOMAIN wsClientIp, m \in LimitedMsgs :
    LET ip == wsClientIp[ws]
        post == handleMessage(ws, m)
    IN  (inBlock(ip) \/ overLimit(ip)) =>
          /\ post.servers = servers
          /\ post.heap = heap
          /\ post.clients = clients
          /\ post.pendingClients = pendingClients
          /\ post.wsMetadata = wsMetadata
          /\ post.timers = timers
          /\ post.generated = generated
          /\ post.failedLookups = failedLookups
          /\ post.requests[ip].blocked
          /\ post.requests[ip].blockExpires > now
          /\ post.out =
               <<Send(ws, ErrorMsg(<<"Rate limited",
                                     CeilDiv(post.requests[ip].blockExpires - now,
                                             MsPerSecond)>>))>>

\* A request beyond maxRequests was refused and started a block of the
\* address, while a server is registered and a session is pending
LimitedCase ==
  \E ws \in open \cap DOMAIN wsClientIp :
    /\ inBlock(wsClientIp[ws])
    /\ requests[wsClientIp[ws]].count > maxRequests
    /\ servers # EmptyMap
    /\ pendingClients # EmptyMap

\* The 'client-disconnected' notice for session sid
ClientDisconnected(sid) ==
  [Msg("client-disconnected") EXCEPT !.sessionId = Some(sid)]

\* C18: the disconnect of a connection whose identity is a client's: if the
\* session it names is pending, its timer is cancelled and the pending
\* record discarded, and nothing is sent; if the session is active it is
\* removed, and 'client-disconnected' with the session id is sent to the
\* connection registered under the session's remoteId if there is one, and
\* nothing is sent if there is none; either way the connection has no
\* identity and no address association afterwards, and no other session
\* and no registration is touched.
ClientDisconnectCleans ==
  \A ws \in open \cap DOMAIN wsMetadata :
    wsMetadata[ws].type = "client" =>
      LET sid == wsMetadata[ws].id
          post == handleDisconnect(ws)
      IN  /\ sid \in DOMAIN pendingClients =>
               /\ pendingClients[sid].timeout \notin DOMAIN post.timers
               /\ post.out = <<>>
          /\ sid \in DOMAIN clients =>
               post.out =
                 IF clients[sid].remoteId \in DOMAIN servers
                 THEN <<Send(heap[servers[clients[sid].remoteId]].ws,
                             ClientDisconnected(sid))>>
                 ELSE <<>>
          /\ DOMAIN post.pendingClients = DOMAIN pendingClients \ {sid}
          /\ DOMAIN post.clients = DOMAIN clients \ {sid}
          /\ \A x \in DOMAIN post.pendingClients :
               /\ post.pendingClients[x] = pendingClients[x]
               /\ pendingClients[x].timeout \in DOMAIN post.timers
          /\ \A x \in DOMAIN post.clients : post.clients[x] = clients[x]
          /\ post.servers = servers
          /\ ws \notin DOMAIN post.wsMetadata
          /\ ws \notin DOMAIN post.wsClientIp

\* A client with an address has an active session under a remoteId whose
\* registrant is open, and an earlier session of the same connection is
\* still pending
ClientDisconnectCase ==
  \E ws \in open \cap DOMAIN wsMetadata \cap DOMAIN wsClientIp :
    /\ wsMetadata[ws].type = "client"
    /\ wsMetadata[ws].id \in DOMAIN clients
    /\ clients[wsMetadata[ws].id].remoteId \in DOMAIN servers
    /\ serverData(clients[wsMetadata[ws].id].remoteId).ws \in open
    /\ pendingClients # EmptyMap

\* C19: every session that is pending eventually is not: it is promoted, by
\* session-ready or by its timer, or discarded, by its client's disconnect or
\* by the cascade of its server's; no session stays pending forever when the
\* armed timers come due.
PendingLeaves ==
  \A sid \in SessionIds :
    (sid \in DOMAIN pendingClients) ~> (sid \notin DOMAIN pendingClients)

\* Two sessions were pending and are not: the timer promoted one, and the
\* other was discarded before any promotion
PendingLeftCase ==
  \E s1, s2 \in 1..generated :
    /\ connected[s1] = <<"timeout">>
    /\ connected[s2] = <<>>
    /\ s2 \notin DOMAIN pendingClients
    /\ s2 \notin DOMAIN clients
    /\ Len(issued[s1]) = 1 /\ Len(issued[s2]) = 1

\* ws holds the registration of remoteId k and has the server identity k
holds(ws, k) ==
  /\ k \in DOMAIN servers
  /\ serverData(k).ws = ws
  /\ ws \in DOMAIN wsMetadata
  /\ wsMetadata[ws] = [type |-> "server", id |-> k]

\* C20: a register-server from the connection that holds the registration of
\* the remoteId it names (in any letter case) changes nothing but the cached
\* iceServers of that registration, which become the message's if the
\* message has any and stay as they were if not; nothing is closed, and the
\* one message sent is 'registered' with the canonical remoteId, to the
\* sender.  What it leaves depends on the message only, so a second one of
\* the same message leaves the same.
RefreshOnly ==
  \A ws \in open, m \in RegisterMsgs(AllRawIds, IceLists), k \in DOMAIN servers :
    (named(m) /\ sameButCase(k, Val(m.remoteId)) /\ holds(ws, k)) =>
      LET post == handleMessage(ws, m)
          list == IF IsSome(m.iceServers) THEN m.iceServers
                  ELSE serverData(k).iceServers
      IN  post = [core EXCEPT
                    !.heap[servers[k]] = [ws |-> ws, iceServers |-> list],
                    !.out = <<Send(ws, Registered(k))>>]

\* The registrant of a remoteId is open and has a list cached, and a session
\* is pending and another active under the remoteId
RefreshCase ==
  \E ws \in open, k \in DOMAIN servers :
    /\ holds(ws, k)
    /\ IsSome(serverData(k).iceServers)
    /\ \E x \in DOMAIN pendingClients : pendingClients[x].remoteId = k
    /\ \E x \in DOMAIN clients : clients[x].remoteId = k

\* C21: the list the deadline timer of a pending session will deliver is the
\* one cached when the connect-request came: no register-server, be it a
\* refresh by the registrant or a replacement by another connection, changes
\* the list that the timer delivers.
FallbackListFixed ==
  \A t \in DOMAIN timers :
    timers[t].sessionId \in DOMAIN pendingClients =>
      \A ws \in open, m \in RegisterMsgs(RawIds, CachedLists) :
        LET post == handleMessage(ws, m) IN
        /\ t \in DOMAIN post.timers
        /\ post.heap[post.timers[t].serverData].iceServers
             = heap[timers[t].serverData].iceServers

\* ws has no identity, or a client's
notAServer(ws) ==
  ws \notin DOMAIN wsMetadata \/ wsMetadata[ws].type # "server"

\* C22 as claimed: a session-ready with a session id from a connection that
\* is no server is answered with 'Not a registered server' and promotes
\* nothing.
NonServerReadyFails ==
  \A ws \in open, sid \in SessionIds :
    notAServer(ws) =>
      \A m \in ReadyFor(sid) :
        LET post == handleMessage(ws, m) IN
        /\ post.out = <<sendError(ws, "Not a registered server")>>
        /\ post.clients = clients
        /\ post.pendingClients = pendingClients

\* C22, amended: a session-ready from a connection that is no server never
\* promotes a session, cancels a timer or sends 'connected'; the caller is
\* sent 'Not a registered server' when the session id is pending, 'Session
\* ID required' when the message has none, and nothing when the session id
\* is not pending.
NonServerReadyRefused ==
  \A ws \in open, m \in ReadyMsgs(FreshLists) :
    notAServer(ws) =>
      LET post == handleMessage(ws, m) IN
      /\ post.clients = clients
      /\ post.pendingClients = pendingClients
      /\ post.timers = timers
      /\ post.connected = connected
      /\ connectedSent(post) = {}
      /\ post.out =
           IF ~IsSome(m.sessionId)
           THEN <<sendError(ws, "Session ID required")>>
           ELSE IF Val(m.sessionId) \in DOMAIN pendingClients
           THEN <<sendError(ws, "Not a registered server")>>
           ELSE <<>>

\* One session is pending and another session id is not, and both a
\* connection without identity and a connection with a client's are open
NonServerReadyCase ==
  /\ \E s1 \in DOMAIN pendingClients, s2 \in 1..generated :
       s2 \notin DOMAIN pendingClients
  /\ \E ws \in open : ws \notin DOMAIN wsMetadata
  /\ \E ws \in open \cap DOMAIN wsMetadata : wsMetadata[ws].type = "client"

\* The violations held against ip
violationsOf(reqs, ip) == IF ip \in DOMAIN reqs THEN reqs[ip].violations ELSE 0

\* C23: the failed lookup that forces a block adds 2 to the violations of
\* the address's request record, and the block lasts
\* min(baseBlockDurationMs * 2^(violations-1), 3,600,000 ms) for the
\* violations so increased, the formula of checkRequest.
LookupBlockSameFormula ==
  \A ip \in Ips :
    LET r == recordFailedLookup(requests, failedLookups, ip, now) IN
    r.blocked =>
      LET v == r.requests[ip].violations IN
      /\ v = violationsOf(requests, ip) + 2
      /\ r.requests[ip].blockExpires - now =
           IF doubled(v) > MaxBlockDurationMs THEN MaxBlockDurationMs
           ELSE doubled(v)

\* The whole seconds that cover ms milliseconds
secondsUp(ms) ==
  CHOOSE n \in 0..(MaxBlockDurationMs \div MsPerSecond) :
    (n - 1) * MsPerSecond < ms /\ ms <= n * MsPerSecond

\* C24: while the block of an address lasts, checkRequest refuses with the
\* seconds left of the block, rounded up, and leaves the record as it is;
\* the first checkRequest at or after the end of the block is allowed,
\* clears the block and starts a window in which it is the first request,
\* and leaves violations as it was.
BlockHoldsThenClears ==
  \A ip \in DOMAIN requests :
    requests[ip].blocked =>
      LET r == checkRequest(requests, ip, now)
          left == requests[ip].blockExpires - now
      IN  /\ left > 0 =>
               /\ ~r.allowed
               /\ r.retryAfter = Some(secondsUp(left))
               /\ r.requests[ip].count = requests[ip].count
               /\ r.requests[ip].violations = requests[ip].violations
               /\ r.requests[ip].blocked
               /\ r.requests[ip].blockExpires = requests[ip].blockExpires
          /\ left <= 0 =>
               /\ r.allowed
               /\ r.retryAfter = None
               /\ ~r.requests[ip].blocked
               /\ r.requests[ip].count = 1
               /\ r.requests[ip].windowStart = now
               /\ r.requests[ip].violations = requests[ip].violations

\* A block has run out and a request has cleared it: the request is the
\* first of a window that started now, later than the block, and the
\* violations are still held against the address
BlockClearedCase ==
  \E ip \in DOMAIN requests :
    /\ ~requests[ip].blocked
    /\ requests[ip].violations > 0
    /\ requests[ip].count = 1
    /\ requests[ip].windowStart = now
    /\ requests[ip].blockExpires > 0
    /\ requests[ip].blockExpires <= now

\* The window of the record of ip has run out and no block is on it
windowOver(ip) ==
  /\ ~requests[ip].blocked
  /\ now - requests[ip].windowStart > windowMs

\* C25: a checkRequest for an unblocked address whose window has run out
\* counts the request as the first of a new window and takes one violation
\* off, none if there is none; no checkRequest lowers violations of a
\* blocked record, and none lowers violations by more than one or below
\* zero.
ViolationsDecay ==
  \A ip \in DOMAIN requests :
    LET r == checkRequest(requests, ip, now)
        v == requests[ip].violations
        w == r.requests[ip].violations
    IN  /\ windowOver(ip) =>
             /\ r.requests[ip].count = 1
             /\ r.requests[ip].windowStart = now
             /\ w = IF v > 0 THEN v - 1 ELSE 0
        /\ requests[ip].blocked => w = v
        /\ w >= v - 1
        /\ w >= 0

\* Two violations are held against an address that is not blocked and whose
\* window has run out
ViolationsDecayCase ==
  \E ip \in DOMAIN requests :
    /\ windowOver(ip)
    /\ requests[ip].violations >= 2

\* The record of ip has been idle for more than ten of the longer window
idle(ip) ==
  now - requests[ip].windowStart >
    10 * (IF windowMs >= failedLookupWindowMs THEN windowMs
          ELSE failedLookupWindowMs)

\* C26: cleanup deletes the request record of an address exactly if the
\* record is not blocked, has no violations and has been idle for more than
\* ten times the longer window; a record that is blocked or has violations
\* stays, and every record that stays is as it was.
CleanupPurges ==
  LET post == cleanupRequests(requests, now) IN
  /\ DOMAIN post \subseteq DOMAIN requests
  /\ \A ip \in DOMAIN requests :
       /\ ip \notin DOMAIN post <=>
            (~requests[ip].blocked /\ requests[ip].violations = 0 /\ idle(ip))
       /\ (requests[ip].blocked \/ requests[ip].violations > 0) =>
            ip \in DOMAIN post
       /\ ip \in DOMAIN post => post[ip] = requests[ip]

\* A record that is not blocked has been idle long enough to be purged but
\* has a violation, and cleanup has to keep it
CleanupKeepsCase ==
  \E ip \in DOMAIN requests :
    /\ ~requests[ip].blocked
    /\ requests[ip].violations > 0
    /\ idle(ip)

\* The connect-request that brings its sender's address to the threshold of
\* failed lookups: the sender is sent the 'Too many failed attempts' error
\* and closed with code 4008, no session is made pending, and the address
\* is blocked
LookupBlockCloses ==
  \A ws \in open \cap DOMAIN wsClientIp, m \in ConnectMsgs(AllRawIds) :
    (/\ named(m)
     /\ \A k \in DOMAIN servers : ~sameButCase(k, Val(m.remoteId))
     /\ admitted(ws)
     /\ lookupsInWindow(wsClientIp[ws]) + 1 >= maxFailedLookups) =>
      LET post == handleMessage(ws, m)
          ip == wsClientIp[ws]
      IN  /\ post.out = <<sendError(ws, BlockedText),
                          Close(ws, CloseBlocked, "Blocked for brute force")>>
          /\ <<ws, CloseBlocked>> \in post.closed
          /\ post.pendingClients = pendingClients
          /\ post.clients = clients
          /\ post.timers = timers
          /\ post.wsMetadata = wsMetadata
          /\ post.generated = generated
          /\ post.requests[ip].blocked
          /\ post.requests[ip].blockExpires > now

\* While an address is blocked, every message but ping and pong of every
\* connection of the address is refused as rate limited and changes nothing
BlockedRefused ==
  \A ws \in open \cap DOMAIN wsClientIp, m \in LimitedMsgs :
    inBlock(wsClientIp[ws]) =>
      LET post == handleMessage(ws, m) IN
      /\ Len(post.out) = 1
      /\ post.out[1].kind = "send"
      /\ post.out[1].to = ws
      /\ post.out[1].msg.type = "error"
      /\ Val(post.out[1].msg.error)[1] = "Rate limited"
      /\ [post EXCEPT !.out = <<>>] = core

\* No event ends or shortens a block before the clock reaches its end
BlockLasts ==
  \A ip \in Ips :
    (inBlock(ip) /\ now' < requests[ip].blockExpires) =>
      /\ ip \in DOMAIN requests'
      /\ requests'[ip].blocked
      /\ requests'[ip].blockExpires >= requests[ip].blockExpires

\* C27: the connect-request for a remoteId nobody registered that brings the
\* sender's address to the threshold of failed lookups is answered with the
\* 'Too many failed attempts' error and the close of the sender with code
\* 4008, and makes no session pending; from then on, until the clock reaches
\* the end of the block, every message but ping and pong from any
\* connection of the address is refused as rate limited.
BlockedForLookups ==
  /\ []LookupBlockCloses
  /\ []BlockedRefused
  /\ [][BlockLasts]_vars

\* While an address is blocked, every message but ping of every connection
\* of the address is answered with the rate limited error
NonPingRefused ==
  \A ws \in open \cap DOMAIN wsClientIp, m \in LimitedMsgs \cup PongMsgs :
    inBlock(wsClientIp[ws]) =>
      LET post == handleMessage(ws, m) IN
      /\ Len(post.out) = 1
      /\ post.out[1].msg.type = "error"
      /\ Val(post.out[1].msg.error)[1] = "Rate limited"

\* C27 as stated: as BlockedForLookups, with every message but ping refused
\* while the block lasts, a pong included.
BlockedForLookupsNonPing ==
  /\ []LookupBlockCloses
  /\ []NonPingRefused
  /\ [][BlockLasts]_vars

\* A connection was closed with code 4008, its address is blocked, and
\* another connection of the address is open
BlockedForLookupsCase ==
  \E a, b \in DOMAIN wsClientIp :
    /\ a # b
    /\ wsClientIp[a] = wsClientIp[b]
    /\ <<a, CloseBlocked>> \in closed
    /\ inBlock(wsClientIp[a])
    /\ b \in open

\* C28: a ping of any open connection, its address blocked or not, is
\* answered with one pong to its sender and changes nothing else, the
\* records of the rate limiter and every registry map included; a pong is
\* answered with nothing and changes nothing at all.
PingPongUnlimited ==
  \A ws \in open :
    /\ \A m \in PingMsgs :
         handleMessage(ws, m) = [core EXCEPT !.out = <<Send(ws, Msg("pong"))>>]
    /\ \A m \in PongMsgs : handleMessage(ws, m) = core

\* A connection of a blocked address is open, requests are counted against
\* the address, and its ping is answered with pong
PingWhileBlockedCase ==
  \E ws \in open \cap DOMAIN wsClientIp, m \in PingMsgs :
    /\ inBlock(wsClientIp[ws])
    /\ requests[wsClientIp[ws]].count > 0
    /\ handleMessage(ws, m).out = <<Send(ws, Msg("pong"))>>

\* Every message a connection may send
AllMsgs == LimitedMsgs \cup PingMsgs \cup PongMsgs

\* What is sent is the rate limited error
rateLimitedError(o) ==
  /\ o.kind = "send"
  /\ o.msg.type = "error"
  /\ Val(o.msg.error)[1] = "Rate limited"

\* C29: whatever an open connection without an address sends, its sender is
\* not sent the rate limited error, the request records and the failed
\* lookup records of the rate limiter stay as they are, and the sender is
\* not closed; its connect-request for a remoteId nobody registered is
\* answered with the 'not found' error alone, however many lookups of it
\* failed before.
NoAddressUnlimited ==
  \A ws \in open \ DOMAIN wsClientIp, m \in AllMsgs :
    LET post == handleMessage(ws, m) IN
    /\ \A i \in DOMAIN post.out :
         ~rateLimitedError(post.out[i])
         /\ ~(post.out[i].kind = "close" /\ post.out[i].to = ws)
    /\ post.requests = requests
    /\ post.failedLookups = failedLookups
    /\ post.closed \ closed \subseteq (WS \ {ws}) \X {CloseReplaced}
    /\ (/\ m.type = "connect-request"
        /\ named(m)
        /\ \A k \in DOMAIN servers : ~sameButCase(k, Val(m.remoteId))) =>
          /\ post.out = <<sendError(ws, NotFoundText)>>
          /\ post.pendingClients = pendingClients

\* A connection without an address is open while the address of another
\* connection is blocked, and its own connect-request for a remoteId nobody
\* registered is answered with 'not found'
NoAddressCase ==
  \E ws \in open \ DOMAIN wsClientIp, m \in ConnectMsgs(RawIds) :
    /\ \E ip \in DOMAIN requests : inBlock(ip)
    /\ failedLookups # EmptyMap
    /\ named(m)
    /\ handleMessage(ws, m).out = <<sendError(ws, NotFoundText)>>

\* The messages without the id their type requires, and those of no known
\* type
InvalidMsgs ==
  {m \in RegisterMsgs(AllRawIds, IceLists) \cup ConnectMsgs(AllRawIds) :
     ~named(m)}
    \cup {m \in ReadyMsgs(IceLists) : m.sessionId = None}
    \cup UnknownMsgs

\* The error an invalid message is answered with
invalidError(m) ==
  CASE m.type \in {"register-server", "connect-request"} ->
         ErrorMsg(<<"Remote ID required">>)
    [] m.type = "session-ready" -> ErrorMsg(<<"Session ID required">>)
    [] OTHER -> ErrorMsg(<<"Unknown message type", m.type>>)

\* C30: a register-server or connect-request without remoteId (none, or the
\* empty string), a session-ready without sessionId and a message of
\* unknown type, when the rate limiter lets the message through, are each
\* answered with one error naming the fault, sent to the sender and to
\* nobody else; servers, clients, pendingClients and the identity map stay
\* as they are, as do the registered objects and the timers, and nothing is
\* closed.
InvalidRejected ==
  \A ws \in open, m \in InvalidMsgs :
    admitted(ws) =>
    LET post == handleMessage(ws, m) IN
    /\ post.out = <<Send(ws, invalidError(m))>>
    /\ post.servers = servers
    /\ post.clients = clients
    /\ post.pendingClients = pendingClients
    /\ post.wsMetadata = wsMetadata
    /\ post.heap = heap
    /\ post.timers = timers
    /\ post.closed = closed

\* A registered server, with one session active and another pending, sends
\* a register-server without remoteId and is answered 'Remote ID required'
InvalidCase ==
  \E ws \in open \cap DOMAIN wsMetadata :
    /\ wsMetadata[ws].type = "server"
    /\ clients # EmptyMap
    /\ pendingClients # EmptyMap
    /\ \E m \in RegisterMsgs(RawIds, CachedLists) :
         /\ m.remoteId = Some(<<>>)
         /\ handleMessage(ws, m).out = <<sendError(ws, "Remote ID required")>>

\* The state after a message that was answered with the one error text and
\* did nothing else
refusedWith(ws, text) == [core EXCEPT !.out = <<sendError(ws, text)>>]

\* The connection's identity is of the given type
identifiedAs(ws, type) == ws \in DOMAIN wsMetadata /\ wsMetadata[ws].type = type

\* C31: an offer, answer or ice-candidate that cannot be routed is sent to
\* nobody and changes nothing; its sender is sent one error, which is 'Not
\* registered' when the sender has no identity, 'Session not found' when
\* the sender is a client whose session is not active (a pending session
\* included), 'Server disconnected' when the client's active session names
\* a remoteId nobody is registered under, and 'Client not found' when the
\* sender is a server and the session id of the message is not active.
UnroutableRefused ==
  \A ws \in open, m \in ForwardMsgs :
    LET post == handleMessage(ws, m) IN
    /\ ws \notin DOMAIN wsMetadata => post = refusedWith(ws, "Not registered")
    /\ (identifiedAs(ws, "client") /\ wsMetadata[ws].id \notin DOMAIN clients)
         => post = refusedWith(ws, "Session not found")
    /\ (/\ identifiedAs(ws, "client")
        /\ wsMetadata[ws].id \in DOMAIN clients
        /\ clients[wsMetadata[ws].id].remoteId \notin DOMAIN servers)
         => post = refusedWith(ws, "Server disconnected")
    /\ (/\ identifiedAs(ws, "server")
        /\ m.sessionId # None
        /\ Val(m.sessionId) \notin DOMAIN clients)
         => post = refusedWith(ws, "Client not found")

\* A client whose session is still pending, a connection without identity
\* and a server are open together, and the client's forward is answered
\* 'Session not found'
UnroutableCase ==
  \E c, s, u \in open :
    /\ identifiedAs(c, "client")
    /\ wsMetadata[c].id \in DOMAIN pendingClients
    /\ identifiedAs(s, "server")
    /\ u \notin DOMAIN wsMetadata
    /\ \E m \in ForwardMsgs :
         handleMessage(c, m).out = <<sendError(c, "Session not found")>>

\* The remoteId of every active session is registered
ActiveServerRegistered ==
  \A sid \in DOMAIN clients : clients[sid].remoteId \in DOMAIN servers

\* C32: an offer, answer or ice-candidate of a connection with server
\* identity that carries no sessionId is answered 'Session ID required' and
\* delivered to nobody; one whose sessionId names an active session is
\* delivered as it was sent, once, to the connection of that session's
\* client and to no other connection, and changes nothing.
ServerForwardAddressed ==
  \A ws \in open, m \in ForwardMsgs :
    identifiedAs(ws, "server") =>
      LET post == handleMessage(ws, m) IN
      /\ m.sessionId = None => post = refusedWith(ws, "Session ID required")
      /\ (m.sessionId # None /\ Val(m.sessionId) \in DOMAIN clients) =>
           post = [core EXCEPT
                     !.out = <<Send(clients[Val(m.sessionId)].ws, m)>>]

\* A server forwards to one of two active sessions, whose client is another
\* connection than the server's
ServerForwardCase ==
  \E ws \in open, m \in ForwardMsgs :
    /\ identifiedAs(ws, "server")
    /\ Cardinality(DOMAIN clients) >= 2
    /\ m.sessionId # None
    /\ Val(m.sessionId) \in DOMAIN clients
    /\ clients[Val(m.sessionId)].ws # ws
    /\ handleMessage(ws, m).out = <<Send(clients[Val(m.sessionId)].ws, m)>>

\* Session id sid was given out and is neither pending nor active any more
removed(sid) ==
  /\ Len(issued[sid]) > 0
  /\ sid \notin DOMAIN pendingClients
  /\ sid \notin DOMAIN clients

\* In one step no active session id becomes pending and no removed session
\* id becomes pending or active
monotoneStep ==
  \A sid \in SessionIds :
    /\ sid \in DOMAIN clients => sid \notin DOMAIN pendingClients'
    /\ removed(sid) => removed(sid)'

timersFor(s) == {t \in DOMAIN timers : timers[t].sessionId = s}

\* A timer is armed for exactly the pending session ids: for each of them
\* the one its record holds, and for no other id any
timersMatchPending ==
  \A s \in SessionIds :
    IF s \in DOMAIN pendingClients
    THEN timersFor(s) = {pendingClients[s].timeout}
    ELSE timersFor(s) = {}

leftUnpromoted(s) ==
  /\ Len(issued[s]) > 0
  /\ \A i \in DOMAIN issued[s] : issued[s][i] \notin open
  /\ connected[s] = <<>>
  /\ s \notin DOMAIN clients

\* C35: once the client of a pending session has disconnected, no step,
\* neither the deadline timer coming due nor a session-ready of the server,
\* makes that session id active or sends 'connected' for it.
DiscardedNeverPromoted ==
  [][\A s \in SessionIds : leftUnpromoted(s) => leftUnpromoted(s)']_vars

\* The client's disconnect takes the pending session its identity names,
\* and the session's timer, away
NamedPendingDiscarded ==
  [][\A ws \in open, s \in DOMAIN pendingClients :
       (/\ identifiedAs(ws, "client")
        /\ wsMetadata[ws].id = s
        /\ open' = open \ {ws}) =>
         /\ s \notin DOMAIN pendingClients'
         /\ s \notin DOMAIN clients'
         /\ timersFor(s)' = {}]_vars

\* C36: in every reachable state the connection of every entry servers[R]
\* has the identity {type: server, id: R}, so that no connection is the
\* registrant of two remoteIds, whatever register-server and
\* connect-request messages the connections have sent.
ServersIdentified ==
  /\ \A r \in DOMAIN servers :
       /\ serverData(r).ws \in DOMAIN wsMetadata
       /\ wsMetadata[serverData(r).ws] = [type |-> "server", id |-> r]
  /\ \A r1, r2 \in DOMAIN servers :
       serverData(r1).ws = serverData(r2).ws => r1 = r2

\* The sessions, pending or active, of connection ws
sessionsOf(ws) ==
  {s \in DOMAIN pendingClients : pendingClients[s].ws = ws}
    \cup {s \in DOMAIN clients : clients[s].ws = ws}

\* C37: in every reachable state the connection of every pending and of
\* every active session s has the identity {type: client, id: s}, so that
\* no connection has two sessions, whatever connect-request and
\* register-server messages it has sent.
SessionsIdentified ==
  /\ \A s \in DOMAIN pendingClients :
       /\ pendingClients[s].ws \in DOMAIN wsMetadata
       /\ wsMetadata[pendingClients[s].ws] = [type |-> "client", id |-> s]
  /\ \A s \in DOMAIN clients :
       /\ clients[s].ws \in DOMAIN wsMetadata
       /\ wsMetadata[clients[s].ws] = [type |-> "client", id |-> s]
  /\ \A ws \in WS : Cardinality(sessionsOf(ws)) <= 1

\* C38: an offer, answer or ice-candidate of a connection with server
\* identity R is delivered to a connection only when the session the
\* message names is active, is that connection's, and is bound to R.
ServerForwardIsolated ==
  \A ws \in open, m \in ForwardMsgs :
    identifiedAs(ws, "server") =>
      LET post == handleMessage(ws, m) IN
      \A i \in DOMAIN post.out :
        (post.out[i].kind = "send" /\ post.out[i].msg.type \in ForwardTypes) =>
          /\ m.sessionId # None
          /\ Val(m.sessionId) \in DOMAIN clients
          /\ clients[Val(m.sessionId)].ws = post.out[i].to
          /\ clients[Val(m.sessionId)].remoteId = wsMetadata[ws].id

\* Connection ws holds the registration of the remoteId its identity names
owner(ws) ==
  /\ identifiedAs(ws, "server")
  /\ wsMetadata[ws].id \in DOMAIN servers
  /\ serverData(wsMetadata[ws].id).ws = ws

\* The connections of the sessions, active or pending, bound to remoteId r
clientsUnder(r) ==
  {clients[s].ws : s \in {x \in DOMAIN clients : clients[x].remoteId = r}}
    \cup {pendingClients[s].ws :
            s \in {x \in DOMAIN pendingClients : pendingClients[x].remoteId = r}}

\* handleDisconnect of the registrant of R leaves the sessions of the other
\* remoteIds, their timers, the other registrations and the other
\* identities as they are
othersKept(ws, post) ==
  LET R == wsMetadata[ws].id IN
  /\ \A s \in DOMAIN clients :
       clients[s].remoteId # R =>
         s \in DOMAIN post.clients /\ post.clients[s] = clients[s]
  /\ \A s \in DOMAIN pendingClients :
       pendingClients[s].remoteId # R =>
         /\ s \in DOMAIN post.pendingClients
         /\ post.pendingClients[s] = pendingClients[s]
         /\ pendingClients[s].timeout \in DOMAIN post.timers
         /\ post.timers[pendingClients[s].timeout]
              = timers[pendingClients[s].timeout]
  /\ \A r \in DOMAIN servers \ {R} :
       /\ r \in DOMAIN post.servers
       /\ post.heap[post.servers[r]] = serverData(r)
  /\ \A c \in DOMAIN wsMetadata \ {ws} :
       c \in DOMAIN post.wsMetadata /\ post.wsMetadata[c] = wsMetadata[c]

\* C39: when the registrant of remoteId R disconnects, the sessions bound
\* to any other remoteId, their timers and the other registrations are as
\* before, and nothing is sent to the connection of a session bound to
\* another remoteId.
CascadeSparesOthers ==
  \A ws \in open :
    owner(ws) =>
      LET R == wsMetadata[ws].id
          post == handleDisconnect(ws)
      IN  /\ othersKept(ws, post)
          /\ \A r \in AllRawIds \ {R} :
               \A c \in clientsUnder(r), i \in DOMAIN post.out :
                 post.out[i].to # c

\* The same, with nothing sent but to the connections of the sessions bound
\* to R
CascadeConfined ==
  \A ws \in open :
    owner(ws) =>
      LET R == wsMetadata[ws].id
          post == handleDisconnect(ws)
      IN  /\ othersKept(ws, post)
          /\ \A i \in DOMAIN post.out : post.out[i].to \in clientsUnder(R)

\* C40: after handleDisconnect(ws), for any open connection ws, with an
\* identity or without, the address map has no entry for ws; and no
\* connection that has disconnected has one.
AddressForgotten ==
  /\ \A ws \in open : ws \notin DOMAIN handleDisconnect(ws).wsClientIp
  /\ \A ws \in WS \ open : ws \notin DOMAIN wsClientIp

====
